---- MODULE Spec2Model ----
(***************************************************************************)
(* Prop manipulation of the photobooth: GestureHandler                     *)
(* (src/js/gesture-handler.js) driving the poses of the props owned by     *)
(* PhotoboothController (src/js/photobooth.js), and the capture pipeline   *)
(* of the controller: capturePhoto and compositeImage drawing the frame,   *)
(* the overlay and the props on the canvas.                                *)
(*                                                                         *)
(* Number representation (JavaScript numbers are read as exact reals):     *)
(*  - lengths are counted in units of PX_PER_UNIT pixels, which keeps the   *)
(*    squares below within 32 bits;                                        *)
(*  - a normalized coordinate v is the integer v * NormDen;                *)
(*  - a scale s, and the pointer distance it comes from, are irrational in *)
(*    general (Math.sqrt); s is held as the integer s^2 * ScaleDen, which  *)
(*    is exact and order preserving for s >= 0;                            *)
(*  - an angle Math.atan2(dy, dx) is held as the direction <<dx, dy>>      *)
(*    reduced by its gcd; two integer vectors have the same angle exactly  *)
(*    when their reduced directions are equal; atan2(0, 0) = 0 = <<1, 0>>. *)
(***************************************************************************)
EXTENDS Integers, Sequences, FiniteSets, TLC

\* ---------------------------------------------------------------- bounds
MaxProps == 2            \* Spec: props in the list at one time
MaxPropsSingle == 1      \* SpecSingle, SpecGeom, SpecMulti, SpecEdge, SpecScale
MaxPropsComposite == 3   \* SpecComposite: props in the list at one time
MaxRequests == 3         \* SpecAdd: addProp() calls in one behaviour

MaxDecayTimers == 6      \* SpecPin: 60 s timers of validatePin pending at once

MaxTime == 4             \* SpecSession: ticks of the clock in one behaviour

MaxPhotoAdds == 3        \* SpecPhotos: addPhoto() calls in one behaviour
MaxCodes == 3            \* SpecCodes: codes in a list
MaxCodeLength == 1       \* SpecCodes: characters in a code

MaxScanStarts == 2       \* SpecScan: startScanning() calls in one behaviour
MaxDetects == 2          \* SpecScan: detect() calls in flight at once

MaxCameraStarts == 2     \* SpecCamera: startCamera() and switchCamera() calls

\* ------------------------------------------------------------- constants
PX_PER_UNIT == 10              \* pixels in one length unit of the model
STICKER_BASE_SIZE == 220       \* CONFIG.UI.STICKER_BASE_SIZE, pixels
REF_DISTANCE == 100            \* the divisor of "distance / 100", pixels
MIN_SCALE_X10 == 2             \* CONFIG.UI.MIN_SCALE = 0.2, in tenths
MAX_SCALE_X10 == 40            \* CONFIG.UI.MAX_SCALE = 4.0, in tenths
COUNTDOWN_DURATION == 3        \* CONFIG.UI.COUNTDOWN_DURATION
CanvasW == 100                 \* canvas.offsetWidth, in length units
CanvasH == 100                 \* canvas.offsetHeight, in length units

MAX_LOGIN_ATTEMPTS == 3        \* CONFIG.SECURITY.MAX_LOGIN_ATTEMPTS

SESSION_TIMEOUT == 30 * 60 * 1000   \* CONFIG.SECURITY.SESSION_TIMEOUT, ms
TICK_MS == 15 * 60 * 1000           \* milliseconds in one tick of the clock

\* CONFIG.SECURITY.SESSION_TIMEOUT in ticks
SessionTicks == SESSION_TIMEOUT \div TICK_MS

MAX_PHOTOS == 100              \* CONFIG.STORAGE.MAX_PHOTOS
CLEANUP_THRESHOLD == 50        \* CONFIG.STORAGE.CLEANUP_THRESHOLD

StickerUnits == STICKER_BASE_SIZE \div PX_PER_UNIT
RefUnits == REF_DISTANCE \div PX_PER_UNIT

\* a normalized coordinate v is held as the integer v * NormDen
NormDen == 2 * CanvasW

\* a scale s is held as the integer s^2 * ScaleDen
ScaleDen == RefUnits * RefUnits

MIN_SCALE_SQ == (MIN_SCALE_X10 * MIN_SCALE_X10 * ScaleDen) \div 100
MAX_SCALE_SQ == (MAX_SCALE_X10 * MAX_SCALE_X10 * ScaleDen) \div 100

\* the pose of a new prop: x: 0.5, y: 0.5, scale: 1, rotation: 0
HALF == NormDen \div 2
UNIT_SCALE_SQ == ScaleDen
ZeroAngle == <<1, 0>>

NoProp == 0
NoGesture == [type |-> "none"]

\* smoothGesture: a smoothing factor f is held as the integer
\* f * SMOOTHING_DEN; the default is 0.1; NoFactor: the call leaves the
\* third argument out
SMOOTHING_DEN == 10
DEFAULT_SMOOTHING == 1
NoFactor == -1

\* The gestures smoothGesture is called with. It interpolates linearly in
\* every component, so here a scale s is held as s * 100 (the pointer
\* distance in pixels) and a rotation in milliradians; every component is
\* a multiple of SMOOTHING_DEN, which keeps the interpolated values whole.
TranslateGestures ==
  { [type |-> "translate", x |-> x, y |-> y] :
      x \in {-20, 100}, y \in {100, 220} }

TransformGestures ==
  { [ type |-> "transform", centerX |-> c, centerY |-> 100,
      distance |-> d, angle |-> a, scale |-> d, rotation |-> a ] :
      c \in {40, 100}, d \in {50, 200}, a \in {0, 1570} }

SmoothingFactors == {NoFactor, 5}

\* The pointer ids the pointer source delivers: two pointers, and three in
\* SpecMulti.
PointerIds == {1, 2}

MultiPointerIds == {1, 2, 3}

\* SpecDrag: one pointer
DragPointerIds == {1}

\* The pointer positions the pointer source delivers (length units, relative
\* to the canvas's top-left corner; a captured pointer may leave the canvas).
\* Spec, SpecMulti: the centre of the canvas and a point 100 px left of the
\* canvas (raw scale 6 between the two).
FewPositions ==
  { <<50, 50>>, <<-10, 50>> }

\* SpecSingle: also a point 10 px below the centre (raw scale 0.1).
Positions ==
  { <<50, 50>>, <<50, 51>>, <<-10, 50>> }

\* SpecGeom: also points 90 px below and 90 px right of the centre (raw
\* scale 0.9 and rotation pi/2 with the centre).
GeomPositions ==
  { <<50, 50>>, <<50, 51>>, <<50, 59>>, <<59, 50>>, <<-10, 50>> }

\* SpecEdge: the centre and points 100 px outside the canvas beyond its
\* top-left and its bottom-right corner.
EdgePositions ==
  { <<50, 50>>, <<-10, -10>>, <<110, 110>> }

\* SpecScale: the centre and points 100 px and 200 px below it (raw scales
\* 1 and 2 with the centre).
ScalePositions ==
  { <<50, 50>>, <<50, 60>>, <<50, 70>> }

\* currentOverlay: null, or one of the overlays of the overlay grid
NoOverlay == 0

Overlays == {1, 2}

\* The size of the frame camera.capturePhoto crops from the video, in
\* length units: 900 x 1200 px, the 3:4 crop of a 1600 x 1200 video.
FrameSizes == { <<90, 120>> }

\* CONFIG.SECURITY.DEFAULT_PIN
DEFAULT_PIN == "1234"

\* the PINs entered: the stored one and two others
Pins == {"1234", "0000", "4321"}

\* photos are held as their ids; the list of the photos 1..n
PhotoRange(n) == [i \in 1..n |-> i]

\* the lists given to setPhotos: empty, one below MAX_PHOTOS, MAX_PHOTOS, and
\* two above it
PhotoLists == { PhotoRange(n) : n \in {0, 99, 100, 101, 120} }

\* the photos given to addPhoto
NewPhotos == {201, 202}

\* the ids given to removePhoto: photos of the lists, an added photo and an
\* id no photo has
RemovedIds == {1, 100, 201, 999}

\* strings are sequences of characters; the characters of the codes
CodeChars == {"G", "V"}

LineFeed == "\n"

CarriageReturn == "\r"

WhiteSpace == {" ", "\t", "\n", "\r"}

\* the non-empty strings of up to n characters of CodeChars
RECURSIVE StringsUpTo(_)
StringsUpTo(n) ==
  IF n = 0 THEN {}
  ELSE LET shorter == StringsUpTo(n - 1)
       IN  shorter \cup { <<c>> : c \in CodeChars }
                   \cup { Append(s, c) : s \in shorter, c \in CodeChars }

\* the lists of up to n elements of set
RECURSIVE ListsUpTo(_, _)
ListsUpTo(n, set) ==
  IF n = 0 THEN { <<>> }
  ELSE LET shorter == ListsUpTo(n - 1, set)
       IN  shorter \cup { Append(l, e) : l \in shorter, e \in set }

\* the code lists given to setApprovedCodes and the codes typed in
Codes == StringsUpTo(MaxCodeLength)

CodeLists == ListsUpTo(MaxCodes, Codes)

\* CONFIG.QR.DEFAULT_APPROVED_CODES: two codes
DEFAULT_APPROVED_CODES == << <<"G", "G">>, <<"V">> >>

\* returned: no call yet
NoCall == [of |-> "none"]

\* null for a session, a timer id and an item of localStorage
NoSession == [id |-> 0]

NoTimer == -1

NoItem == [item |-> "null"]

\* an item of localStorage: JSON.stringify(value), which JSON.parse gives
\* back
Item(value) == [item |-> "json", value |-> value]

\* capture: no capturePhoto() call is suspended
Idle == [at |-> "idle"]

\* no composition completed yet
NoComposite ==
  [from |-> [width |-> 0, height |-> 0, overlays |-> {}, props |-> <<>>,
             failing |-> {}],
   draws |-> <<>>, again |-> FALSE]

\* a canvas nothing has been drawn on, of the size of the preview
BlankCanvas ==
  [ width |-> CanvasW, height |-> CanvasH,
    draws |-> <<>>, transform |-> <<>>, saved |-> <<>> ]

\* The prop catalogue: the intrinsic size of each prop image.
Catalog ==
  << [name |-> "wide", imgWidth |-> 2, imgHeight |-> 1] >>

VARIABLES
  pointers,      \* GestureHandler.pointers: Map in insertion order
  lastGesture,   \* GestureHandler.lastGesture
  isActive,      \* GestureHandler.isActive
  props,         \* PhotoboothController.props
  selectedProp,  \* PhotoboothController.selectedProp (id of the prop object)
  event,         \* the event handled last: its type; tracked: the pointer id
                 \* was in the pointer map when it arrived; selected: for
                 \* addProp, some prop was selected when it ran, for
                 \* removeProp, the removed prop was the selected one
  currentOverlay,  \* PhotoboothController.currentOverlay
  isCapturing,     \* PhotoboothController.isCapturing
  capture,         \* the await capturePhoto()/compositeImage() is suspended at
  canvas,          \* elements.canvas and its 2d context: size, the drawImage
                   \* calls since the size was set, current transform and
                   \* the stack of ctx.save()
  previewHidden,   \* elements.preview.hidden
  logged,          \* the contexts Utils.logError got since the last
                   \* capturePhoto() call
  gesture,           \* smoothGesture: the argument gesture
  previousGesture,   \* smoothGesture: the argument previousGesture
  smoothingFactor,   \* smoothGesture: the argument smoothingFactor
  smoothed,          \* smoothGesture: the value returned
  cameraActive,    \* CameraManager: video and stream are set
  lastComposite,   \* the composition completed last: what it was made from
                   \* and what it drew
  pending,         \* addProp() calls awaiting Utils.loadImage, oldest first
  addRequests,     \* the number of addProp() calls so far
  requestOf,       \* for each prop pushed, its id and the number of the
                   \* addProp() call that made it
  returned,        \* the call made last to a method that returns a value:
                   \* its argument and the value it returned
  loginAttempts,   \* SessionManager.loginAttempts
  decayTimers,     \* the 60 s timers of validatePin that have not fired,
                   \* oldest first; counted: started after the last
                   \* successful validation
  now,             \* Date.now(), in ticks of TICK_MS
  currentSession,  \* SessionManager.currentSession
  storedSession,   \* localStorage: the item CONFIG.STORAGE.KEYS.SESSION
  timeoutId,       \* the pending timer of resetTimeout(): the time it is set
                   \* for
  isAvailable,     \* StorageManager.isAvailable
  storageFull,     \* localStorage holds more than 90% of the assumed 5 MB
  storedPhotos,    \* localStorage: the item CONFIG.STORAGE.KEYS.PHOTOS
  storedCodes,     \* localStorage: the item CONFIG.STORAGE.KEYS.APPROVED_CODES
  photoAdds,       \* the number of addPhoto() calls so far
  scanner,         \* the QRScanner: its fields, its startScanning() calls
                   \* in progress, the callbacks it has pending and the
                   \* streams it acquired whose tracks run
  camera           \* the CameraManager: its fields, its startCamera() calls
                   \* in progress and the streams it acquired whose tracks
                   \* run

handlerVars == <<pointers, lastGesture, isActive>>

captureVars ==
  <<currentOverlay, isCapturing, capture, canvas, previewHidden, logged,
    cameraActive, lastComposite>>

addVars == <<pending, addRequests, requestOf>>

smoothVars == <<gesture, previousGesture, smoothingFactor, smoothed>>

pinVars == <<loginAttempts, decayTimers>>

sessionVars == <<now, currentSession, storedSession, timeoutId>>

storageVars ==
  <<isAvailable, storageFull, storedPhotos, storedCodes, photoAdds>>

serviceVars == <<returned, pinVars, sessionVars, storageVars, scanner, camera>>

\* the state of the photobooth page: GestureHandler and PhotoboothController
boothVars ==
  <<handlerVars, props, selectedProp, captureVars, smoothVars, addVars>>

vars ==
  <<pointers, lastGesture, isActive, props, selectedProp, event,
    captureVars, smoothVars, addVars, serviceVars>>

Event(type, tracked, selected) ==
  [type |-> type, tracked |-> tracked, selected |-> selected]

\* ------------------------------------------------------------ arithmetic
Abs(n) == IF n < 0 THEN -n ELSE n

Min(a, b) == IF a < b THEN a ELSE b

Max(a, b) == IF a > b THEN a ELSE b

RECURSIVE GCD(_, _)
GCD(a, b) == IF b = 0 THEN a ELSE GCD(b, a % b)

\* Math.atan2(dy, dx)
Atan2(dy, dx) ==
  IF dx = 0 /\ dy = 0 THEN ZeroAngle
  ELSE LET g == GCD(Abs(dx), Abs(dy))
       IN  << (IF dx < 0 THEN -(Abs(dx) \div g) ELSE dx \div g),
              (IF dy < 0 THEN -(Abs(dy) \div g) ELSE dy \div g) >>

\* mutant of Clamp01: the lower clamp Math.max(0, ...) is missing
Clamp01NoFloor(v) == Min(NormDen, v)

\* Math.max(0, Math.min(1, v)) on a normalized coordinate
Clamp01(v) == Max(0, Min(NormDen, v))

\* mutant of ClampScale: the lower clamp Math.max(MIN_SCALE, ...) is missing
ClampScaleNoFloor(s) == Min(MAX_SCALE_SQ, s)

\* Math.max(MIN_SCALE, Math.min(MAX_SCALE, s))
ClampScale(s) == Max(MIN_SCALE_SQ, Min(MAX_SCALE_SQ, s))

\* pixel coordinate / canvas.offsetWidth (offsetHeight)
NormX(px) == (px * NormDen) \div CanvasW

NormY(py) == (py * NormDen) \div CanvasH

\* ------------------------------------------------------ the pointer map
Ids(ps) == { ps[i].id : i \in 1..Len(ps) }

IndexOf(ps, id) == CHOOSE i \in 1..Len(ps) : ps[i].id = id

\* Map.set: a known key keeps its place, a new key goes last
MapSet(ps, p) ==
  IF p.id \in Ids(ps)
  THEN [ps EXCEPT ![IndexOf(ps, p.id)] = p]
  ELSE Append(ps, p)

\* Map.delete
MapDelete(ps, id) == SelectSeq(ps, LAMBDA p : p.id # id)

getPointerFromEvent(id, pos) == [id |-> id, x |-> pos[1], y |-> pos[2]]

\* ------------------------------------------------------ GestureHandler
\* mutant of computeTwoPointerGesture: the distance is dx * dx + dy * dy,
\* the Math.sqrt is missing
computeTwoPointerGestureNoSqrt(p1, p2) ==
  LET dx == p2.x - p1.x
      dy == p2.y - p1.y
      distance2 == dx * dx + dy * dy
      raw == (PX_PER_UNIT * PX_PER_UNIT * distance2) \div REF_DISTANCE
  IN  [ type     |-> "transform",
        centerX  |-> ((p1.x + p2.x) * NormDen) \div (2 * CanvasW),
        centerY  |-> ((p1.y + p2.y) * NormDen) \div (2 * CanvasH),
        distance |-> PX_PER_UNIT * PX_PER_UNIT * distance2 * distance2,
        angle    |-> Atan2(dy, dx),
        scale    |-> raw * raw * ScaleDen,
        rotation |-> Atan2(dy, dx) ]

computeTwoPointerGesture(p1, p2) ==
  LET dx == p2.x - p1.x
      dy == p2.y - p1.y
      distance2 == dx * dx + dy * dy
  IN  [ type     |-> "transform",
        centerX  |-> ((p1.x + p2.x) * NormDen) \div (2 * CanvasW),
        centerY  |-> ((p1.y + p2.y) * NormDen) \div (2 * CanvasH),
        distance |-> distance2,
        angle    |-> Atan2(dy, dx),
        scale    |-> (distance2 * ScaleDen) \div (RefUnits * RefUnits),
        rotation |-> Atan2(dy, dx) ]

\* the value of lastGesture after updateGesture()
updateGesture(ps, lg) ==
  IF Len(ps) = 0 THEN NoGesture
  ELSE IF Len(ps) = 1
       THEN [type |-> "translate", x |-> NormX(ps[1].x), y |-> NormY(ps[1].y)]
  ELSE IF Len(ps) = 2 THEN computeTwoPointerGesture(ps[1], ps[2])
  ELSE lg

\* |d| <= size * scale / 2 / extent for a normalized offset d, a size in
\* length units and a scale: both sides multiplied by the denominators and
\* squared
Within(d, size, scale, extent) ==
  LET g == GCD(2 * extent, NormDen)
      e == Abs(d) * ((2 * extent) \div g)
      w == size * (NormDen \div g)
  IN  e * e * ScaleDen <= w * w * scale

\* does the prop's box contain the normalized point (x, y)
\*   x >= left && x <= right && y >= top && y <= bottom
\* with left, right = prop.x -+ halfWidth and top, bottom = prop.y -+ halfHeight
InBox(prop, x, y) ==
  /\ Within(x - prop.x, prop.width, prop.scale, CanvasW)
  /\ Within(y - prop.y, prop.height, prop.scale, CanvasH)

RECURSIVE ScanDown(_, _, _, _)
ScanDown(ps, i, x, y) ==
  IF i < 1 THEN NoProp
  ELSE IF InBox(ps[i], x, y) THEN ps[i].id
  ELSE ScanDown(ps, i - 1, x, y)

RECURSIVE ScanUp(_, _, _, _)
ScanUp(ps, i, x, y) ==
  IF i > Len(ps) THEN NoProp
  ELSE IF InBox(ps[i], x, y) THEN ps[i].id
  ELSE ScanUp(ps, i + 1, x, y)

\* mutant of findPropAtPosition: the list is scanned bottom to top
findPropBottomFirst(ps, x, y) == ScanUp(ps, 1, x, y)

\* the id of the prop found, NoProp for null
findPropAtPosition(ps, x, y) == ScanDown(ps, Len(ps), x, y)

\* the value of controller.selectedProp after handleSinglePointerDown
handleSinglePointerDown(ps, pointer) ==
  findPropAtPosition(ps, NormX(pointer.x), NormY(pointer.y))

\* isValidGesture(gesture): no handler calls it
isValidGesture(g) ==
  IF g = NoGesture THEN FALSE
  ELSE IF g.type = "translate"
  THEN g.x >= 0 /\ g.x <= NormDen /\ g.y >= 0 /\ g.y <= NormDen
  ELSE IF g.type = "transform"
  THEN g.scale >= MIN_SCALE_SQ /\ g.scale <= MAX_SCALE_SQ
  ELSE FALSE

\* previous + (new - previous) * factor
Interpolate(previous, new, factor) ==
  previous + ((new - previous) * factor) \div SMOOTHING_DEN

\* mutant of smoothGesture: the interpolation starts from the new gesture
smoothGestureFromNew(g, previous, factor) ==
  LET f == IF factor = NoFactor THEN DEFAULT_SMOOTHING ELSE factor
  IN  IF previous = NoGesture THEN g
      ELSE IF g.type # previous.type THEN g
      ELSE IF g.type = "translate"
      THEN [g EXCEPT !.x = Interpolate(g.x, previous.x, f),
                     !.y = Interpolate(g.y, previous.y, f)]
      ELSE IF g.type = "transform"
      THEN [g EXCEPT
              !.centerX = Interpolate(g.centerX, previous.centerX, f),
              !.centerY = Interpolate(g.centerY, previous.centerY, f),
              !.scale = Interpolate(g.scale, previous.scale, f),
              !.rotation = Interpolate(g.rotation, previous.rotation, f)]
      ELSE g

\* smoothGesture(gesture, previousGesture, smoothingFactor = 0.1): no
\* handler calls it
smoothGesture(g, previous, factor) ==
  LET f == IF factor = NoFactor THEN DEFAULT_SMOOTHING ELSE factor
  IN  IF previous = NoGesture THEN g
      ELSE IF g.type # previous.type THEN g
      ELSE IF g.type = "translate"
      THEN [g EXCEPT !.x = Interpolate(previous.x, g.x, f),
                     !.y = Interpolate(previous.y, g.y, f)]
      ELSE IF g.type = "transform"
      THEN [g EXCEPT
              !.centerX = Interpolate(previous.centerX, g.centerX, f),
              !.centerY = Interpolate(previous.centerY, g.centerY, f),
              !.scale = Interpolate(previous.scale, g.scale, f),
              !.rotation = Interpolate(previous.rotation, g.rotation, f)]
      ELSE g

\* mutant of ApplyTo: the transform branch multiplies the prop's scale by
\* the gesture's scale
ApplyToRelative(prop, lg) ==
  IF lg.type = "translate"
  THEN [prop EXCEPT !.x = Clamp01(lg.x), !.y = Clamp01(lg.y)]
  ELSE IF lg.type = "transform"
  THEN [prop EXCEPT !.x = Clamp01(lg.centerX), !.y = Clamp01(lg.centerY),
                    !.scale = ClampScale((prop.scale * lg.scale) \div ScaleDen),
                    !.rotation = lg.rotation]
  ELSE prop

\* mutant of ApplyTo: the translate branch also writes the scale and the
\* rotation of a new prop
ApplyToTranslateResets(prop, lg) ==
  IF lg.type = "translate"
  THEN [prop EXCEPT !.x = Clamp01(lg.x), !.y = Clamp01(lg.y),
                    !.scale = UNIT_SCALE_SQ, !.rotation = ZeroAngle]
  ELSE IF lg.type = "transform"
  THEN [prop EXCEPT !.x = Clamp01(lg.centerX), !.y = Clamp01(lg.centerY),
                    !.scale = ClampScale(lg.scale),
                    !.rotation = lg.rotation]
  ELSE prop

\* mutant of ApplyTo: a gesture isValidGesture rejects is discarded
ApplyToIfValid(prop, lg) ==
  IF ~isValidGesture(lg) THEN prop
  ELSE IF lg.type = "translate"
  THEN [prop EXCEPT !.x = Clamp01(lg.x), !.y = Clamp01(lg.y)]
  ELSE [prop EXCEPT !.x = Clamp01(lg.centerX),
                    !.y = Clamp01(lg.centerY),
                    !.scale = ClampScale(lg.scale),
                    !.rotation = lg.rotation]

\* the selected prop after the body of applyGesture()
ApplyTo(prop, lg) ==
  IF lg.type = "translate"
  THEN [prop EXCEPT !.x = Clamp01(lg.x), !.y = Clamp01(lg.y)]
  ELSE IF lg.type = "transform"
  THEN [prop EXCEPT !.x = Clamp01(lg.centerX),
                    !.y = Clamp01(lg.centerY),
                    !.scale = ClampScale(lg.scale),
                    !.rotation = lg.rotation]
  ELSE prop

\* mutant of applyGesture: the gesture is written to every prop of the list
applyGestureAll(lg, sel, ps) ==
  IF lg = NoGesture \/ sel = NoProp THEN ps
  ELSE [i \in 1..Len(ps) |-> ApplyTo(ps[i], lg)]

\* the prop list after applyGesture(): the selected object is written
applyGesture(lg, sel, ps) ==
  IF lg = NoGesture \/ sel = NoProp THEN ps
  ELSE [i \in 1..Len(ps) |-> IF ps[i].id = sel THEN ApplyTo(ps[i], lg) ELSE ps[i]]

\* mutant of handlePointerDown: the hit-test runs for every pointer-down,
\* the pointers.size === 1 test is missing
handlePointerDownAlwaysSelects(id, pos) ==
  /\ isActive
  /\ id \notin Ids(pointers)
  /\ LET pointer == getPointerFromEvent(id, pos)
         ps == MapSet(pointers, pointer)
     IN  /\ pointers' = ps
         /\ selectedProp' = handleSinglePointerDown(props, pointer)
         /\ lastGesture' = updateGesture(ps, lastGesture)
  /\ event' = Event("pointerdown", FALSE, FALSE)
  /\ UNCHANGED <<isActive, props>>
  /\ UNCHANGED <<captureVars, smoothVars, addVars, serviceVars>>

handlePointerDown(id, pos) ==
  /\ isActive
  /\ id \notin Ids(pointers)
  /\ LET pointer == getPointerFromEvent(id, pos)
         ps == MapSet(pointers, pointer)
     IN  /\ pointers' = ps
         /\ selectedProp' = IF Len(ps) = 1
                            THEN handleSinglePointerDown(props, pointer)
                            ELSE selectedProp
         /\ lastGesture' = updateGesture(ps, lastGesture)
  /\ event' = Event("pointerdown", FALSE, FALSE)
  /\ UNCHANGED <<isActive, props>>
  /\ UNCHANGED <<captureVars, smoothVars, addVars, serviceVars>>

\* mutant of handlePointerMove: the pointers.has(event.pointerId) test is
\* missing
handlePointerMoveUntracked(id, pos) ==
  /\ IF ~isActive
     THEN UNCHANGED <<pointers, lastGesture, props>>
     ELSE LET ps == MapSet(pointers, getPointerFromEvent(id, pos))
              lg == updateGesture(ps, lastGesture)
          IN  /\ pointers' = ps
              /\ lastGesture' = lg
              /\ props' = applyGesture(lg, selectedProp, props)
  /\ event' = Event("pointermove", id \in Ids(pointers), FALSE)
  /\ UNCHANGED <<isActive, selectedProp>>
  /\ UNCHANGED <<captureVars, smoothVars, addVars, serviceVars>>

handlePointerMove(id, pos) ==
  /\ IF ~isActive \/ id \notin Ids(pointers)
     THEN UNCHANGED <<pointers, lastGesture, props>>
     ELSE LET ps == MapSet(pointers, getPointerFromEvent(id, pos))
              lg == updateGesture(ps, lastGesture)
          IN  /\ pointers' = ps
              /\ lastGesture' = lg
              /\ props' = applyGesture(lg, selectedProp, props)
  /\ event' = Event("pointermove", id \in Ids(pointers), FALSE)
  /\ UNCHANGED <<isActive, selectedProp>>
  /\ UNCHANGED <<captureVars, smoothVars, addVars, serviceVars>>

\* mutant of PointerUp: the else branch does not call updateGesture()
PointerUpNoUpdate(id, type) ==
  /\ IF ~isActive
     THEN UNCHANGED <<pointers, lastGesture>>
     ELSE LET ps == MapDelete(pointers, id)
          IN  /\ pointers' = ps
              /\ lastGesture' = IF Len(ps) = 0 THEN NoGesture ELSE lastGesture
  /\ event' = Event(type, id \in Ids(pointers), FALSE)
  /\ UNCHANGED <<isActive, props, selectedProp>>
  /\ UNCHANGED <<captureVars, smoothVars, addVars, serviceVars>>

\* handlePointerUp(event), which handlePointerCancel(event) calls
PointerUp(id, type) ==
  /\ IF ~isActive
     THEN UNCHANGED <<pointers, lastGesture>>
     ELSE LET ps == MapDelete(pointers, id)
          IN  /\ pointers' = ps
              /\ lastGesture' = IF Len(ps) = 0 THEN NoGesture
                                ELSE updateGesture(ps, lastGesture)
  /\ event' = Event(type, id \in Ids(pointers), FALSE)
  /\ UNCHANGED <<isActive, props, selectedProp>>
  /\ UNCHANGED <<captureVars, smoothVars, addVars, serviceVars>>

handlePointerUp(id) == PointerUp(id, "pointerup")

\* mutant of handlePointerCancel: the pointer is forgotten, the gesture is
\* neither reset nor recomputed
handlePointerCancelDeleteOnly(id) ==
  /\ pointers' = IF isActive THEN MapDelete(pointers, id) ELSE pointers
  /\ event' = Event("pointercancel", id \in Ids(pointers), FALSE)
  /\ UNCHANGED <<lastGesture, isActive, props, selectedProp>>
  /\ UNCHANGED <<captureVars, smoothVars, addVars, serviceVars>>

handlePointerCancel(id) == PointerUp(id, "pointercancel")

destroy ==
  /\ isActive
  /\ pointers' = <<>>
  /\ lastGesture' = NoGesture
  /\ isActive' = FALSE
  /\ event' = Event("destroy", FALSE, FALSE)
  /\ UNCHANGED <<props, selectedProp>>
  /\ UNCHANGED <<captureVars, smoothVars, addVars, serviceVars>>

\* ------------------------------------------------- PhotoboothController
\* Utils.generateUUID(): an id no live prop object has
FreshId == CHOOSE n \in 1..(Len(props) + 2) :
             n \notin Ids(props) /\ n # selectedProp

NewProp(c) ==
  [ id |-> FreshId, src |-> c,
    x |-> HALF, y |-> HALF, scale |-> UNIT_SCALE_SQ, rotation |-> ZeroAngle,
    width  |-> StickerUnits,
    height |-> (StickerUnits * Catalog[c].imgHeight) \div Catalog[c].imgWidth ]

\* mutant of addProp: this.props.unshift(propObj) in place of push
addPropPrepend(c, limit) ==
  /\ Len(props) < limit
  /\ LET propObj == NewProp(c)
     IN  /\ props' = <<propObj>> \o props
         /\ selectedProp' = propObj.id
  /\ event' = Event("addProp", FALSE, selectedProp # NoProp)
  /\ UNCHANGED <<pointers, lastGesture, isActive>>
  /\ UNCHANGED <<captureVars, smoothVars, addVars, serviceVars>>

\* mutant of addProp: the new prop is not made the selection
addPropNoSelect(c, limit) ==
  /\ Len(props) < limit
  /\ props' = Append(props, NewProp(c))
  /\ event' = Event("addProp", FALSE, selectedProp # NoProp)
  /\ UNCHANGED <<pointers, lastGesture, isActive, selectedProp>>
  /\ UNCHANGED <<captureVars, smoothVars, addVars, serviceVars>>

\* addProp(prop) from the point where "await Utils.loadImage(prop.src)" has
\* returned the image: the call touches no state before that point
addProp(c, limit) ==
  /\ Len(props) < limit
  /\ LET propObj == NewProp(c)
     IN  /\ props' = Append(props, propObj)
         /\ selectedProp' = propObj.id
  /\ event' = Event("addProp", FALSE, selectedProp # NoProp)
  /\ UNCHANGED <<pointers, lastGesture, isActive>>
  /\ UNCHANGED <<captureVars, smoothVars, addVars, serviceVars>>

\* addProp(prop) whose image fails to load: the catch branch
addPropFailed(c) ==
  /\ event' = Event("addPropFailed", FALSE, FALSE)
  /\ UNCHANGED <<pointers, lastGesture, isActive, props, selectedProp>>
  /\ UNCHANGED <<captureVars, smoothVars, addVars, serviceVars>>

\* addProp(prop) up to await Utils.loadImage(prop.src): the load of the
\* image is under way
requestAddProp(c) ==
  /\ addRequests < MaxRequests
  /\ pending' = Append(pending, [req |-> addRequests + 1, src |-> c])
  /\ addRequests' = addRequests + 1
  /\ event' = Event("requestAddProp", FALSE, selectedProp # NoProp)
  /\ UNCHANGED <<handlerVars, props, selectedProp, requestOf>>
  /\ UNCHANGED <<captureVars, smoothVars, serviceVars>>

\* the pending loads but the k-th
Settled(k) ==
  [i \in 1..(Len(pending) - 1) |-> IF i < k THEN pending[i] ELSE pending[i + 1]]

\* the load of the k-th pending addProp() resolves: the rest of its try
addPropLoaded(k) ==
  /\ LET propObj == NewProp(pending[k].src)
     IN  /\ props' = Append(props, propObj)
         /\ selectedProp' = propObj.id
         /\ requestOf' = Append(requestOf, [id |-> propObj.id,
                                            req |-> pending[k].req])
  /\ pending' = Settled(k)
  /\ event' = Event("addProp", FALSE, selectedProp # NoProp)
  /\ UNCHANGED <<handlerVars, addRequests>>
  /\ UNCHANGED <<captureVars, smoothVars, serviceVars>>

\* the load of the k-th pending addProp() rejects: its catch
addPropLoadFailed(k) ==
  /\ pending' = Settled(k)
  /\ event' = Event("addPropFailed", FALSE, selectedProp # NoProp)
  /\ UNCHANGED <<handlerVars, props, selectedProp, addRequests, requestOf>>
  /\ UNCHANGED <<captureVars, smoothVars, serviceVars>>

\* mutant of removeProp: the selection is not cleared
removePropKeepSelection(id) ==
  /\ props' = SelectSeq(props, LAMBDA p : p.id # id)
  /\ event' = Event("removeProp", FALSE, selectedProp = id)
  /\ UNCHANGED <<pointers, lastGesture, isActive, selectedProp>>
  /\ UNCHANGED <<captureVars, smoothVars, addVars, serviceVars>>

\* removeProp(prop) for a prop object of the list
removeProp(id) ==
  /\ props' = SelectSeq(props, LAMBDA p : p.id # id)
  /\ selectedProp' = IF selectedProp = id THEN NoProp ELSE selectedProp
  /\ event' = Event("removeProp", FALSE, selectedProp = id)
  /\ UNCHANGED <<pointers, lastGesture, isActive>>
  /\ UNCHANGED <<captureVars, smoothVars, addVars, serviceVars>>

\* ------------------------------------------- capture and compositing
\* Utils.logError(context, error)
LogError(log, context) == log \cup {context}

\* mutant of Resize: the bitmap is cleared, the state of the context stays
ResizeKeepsContext(cv, w, h) ==
  [cv EXCEPT !.width = w, !.height = h, !.draws = <<>>]

\* canvas.width = w; canvas.height = h: the bitmap is cleared and the
\* context is reset to its default state
Resize(cv, w, h) ==
  [ width |-> w, height |-> h,
    draws |-> <<>>, transform |-> <<>>, saved |-> <<>> ]

\* ctx.drawImage(image, x, y, w, h) under the current transform; x2 and y2
\* are twice x and y; ok: the call painted, it did not throw
DrawImage(cv, layer, src, x2, y2, w, h, ok) ==
  [cv EXCEPT !.draws = Append(@, [ layer |-> layer, src |-> src,
                                    transform |-> cv.transform,
                                    x2 |-> x2, y2 |-> y2, w |-> w, h |-> h,
                                    ok |-> ok ])]

\* ctx.save()
Save(cv) == [cv EXCEPT !.saved = Append(@, cv.transform)]

\* ctx.restore(): nothing happens on an empty stack
Restore(cv) ==
  IF Len(cv.saved) = 0 THEN cv
  ELSE [cv EXCEPT !.transform = cv.saved[Len(cv.saved)],
                  !.saved = SubSeq(cv.saved, 1, Len(cv.saved) - 1)]

\* ctx.translate, ctx.rotate, ctx.scale: the transform is the sequence of
\* the calls that make it up; the arguments of translate are held times
\* NormDen
Transformed(cv, op) == [cv EXCEPT !.transform = Append(@, op)]

Translate(tx, ty) == [op |-> "translate", a |-> tx, b |-> ty]

Rotate(angle) == [op |-> "rotate", a |-> angle[1], b |-> angle[2]]

Scale(sx, sy) == [op |-> "scale", a |-> sx, b |-> sy]

\* one pass of the loop over this.props in compositeImage: the body of the
\* try; throws: ctx.drawImage(prop.img, ...) throws, the catch logs it and
\* the ctx.restore() after the drawImage is not reached
DrawProp(cv, prop, throws) ==
  LET c1 == Save(cv)
      c2 == Transformed(c1, Translate(prop.x * cv.width, prop.y * cv.height))
      c3 == Transformed(c2, Rotate(prop.rotation))
      c4 == Transformed(c3, Scale(prop.scale, prop.scale))
      c5 == DrawImage(c4, "prop", prop.id, -prop.width, -prop.height,
                      prop.width, prop.height, ~throws)
  IN  IF throws THEN c5 ELSE Restore(c5)

\* mutant of DrawProps: the loop runs from the last prop to the first
RECURSIVE DrawPropsReversed(_, _, _, _)
DrawPropsReversed(cv, ps, i, failing) ==
  IF i > Len(ps) THEN cv
  ELSE DrawProp(DrawPropsReversed(cv, ps, i + 1, failing), ps[i],
                ps[i].id \in failing)

\* mutant of DrawProps: the try/catch is around the loop, the first draw
\* that throws ends it
RECURSIVE DrawPropsAbort(_, _, _, _)
DrawPropsAbort(cv, ps, i, failing) ==
  IF i > Len(ps) THEN cv
  ELSE IF ps[i].id \in failing THEN DrawProp(cv, ps[i], TRUE)
  ELSE DrawPropsAbort(DrawProp(cv, ps[i], FALSE), ps, i + 1, failing)

\* for (const prop of this.props) { try { ... } catch { logError } } from
\* the i-th prop on; failing: the props whose drawImage throws
RECURSIVE DrawProps(_, _, _, _)
DrawProps(cv, ps, i, failing) ==
  IF i > Len(ps) THEN cv
  ELSE DrawProps(DrawProp(cv, ps[i], ps[i].id \in failing), ps, i + 1, failing)

\* canvas.width = photoImg.width; canvas.height = photoImg.height;
\* ctx.drawImage(photoImg, 0, 0)
DrawFrame(cv, size) ==
  DrawImage(Resize(cv, size[1], size[2]), "frame", 0, 0, 0,
            size[1], size[2], TRUE)

\* ctx.drawImage(overlayImg, 0, 0, canvas.width, canvas.height)
DrawOverlay(cv, overlay) ==
  DrawImage(cv, "overlay", overlay, 0, 0, cv.width, cv.height, TRUE)

selectOverlay(overlay) ==
  /\ currentOverlay' = overlay
  /\ event' = Event("selectOverlay", FALSE, FALSE)
  /\ UNCHANGED <<handlerVars, props, selectedProp, smoothVars, addVars, serviceVars>>
  /\ UNCHANGED <<isCapturing, capture, canvas, previewHidden, logged>>
  /\ UNCHANGED <<cameraActive, lastComposite>>

retakePhoto ==
  /\ previewHidden' = TRUE
  /\ event' = Event("retakePhoto", FALSE, FALSE)
  /\ UNCHANGED <<handlerVars, props, selectedProp, smoothVars, addVars, serviceVars>>
  /\ UNCHANGED <<currentOverlay, isCapturing, capture, canvas, logged>>
  /\ UNCHANGED <<cameraActive, lastComposite>>

\* mutant of capturePhoto: the "if (this.isCapturing) return" is missing
capturePhotoNoGuard ==
  /\ isCapturing' = TRUE
  /\ capture' = [at |-> "countdown", count |-> COUNTDOWN_DURATION - 1]
  /\ logged' = {}
  /\ event' = Event("capturePhoto", FALSE, FALSE)
  /\ UNCHANGED <<handlerVars, props, selectedProp, smoothVars, addVars, serviceVars>>
  /\ UNCHANGED <<currentOverlay, canvas, previewHidden>>
  /\ UNCHANGED <<cameraActive, lastComposite>>

\* capturePhoto() up to await this.startCountdown()
capturePhoto ==
  /\ IF isCapturing
     THEN UNCHANGED <<isCapturing, capture, logged>>
     ELSE /\ isCapturing' = TRUE
          /\ capture' = [at |-> "countdown", count |-> COUNTDOWN_DURATION - 1]
          /\ logged' = {}
  /\ event' = Event("capturePhoto", FALSE, FALSE)
  /\ UNCHANGED <<handlerVars, props, selectedProp, smoothVars, addVars, serviceVars>>
  /\ UNCHANGED <<currentOverlay, canvas, previewHidden>>
  /\ UNCHANGED <<cameraActive, lastComposite>>

\* a timer of the countdown fires, updateCountdown() runs: with count > 0
\* it counts down and stores the next timer in this.countdownTimer, with
\* count = 0 it starts the 200 ms timer that resolves startCountdown(),
\* which it stores nowhere
countdownTick ==
  /\ capture.at = "countdown"
  /\ capture' = IF capture.count > 0
                THEN [at |-> "countdown", count |-> capture.count - 1]
                ELSE [at |-> "shutter"]
  /\ event' = Event("countdownTick", FALSE, FALSE)
  /\ UNCHANGED <<handlerVars, props, selectedProp, smoothVars, addVars, serviceVars>>
  /\ UNCHANGED <<currentOverlay, isCapturing, canvas, previewHidden, logged>>
  /\ UNCHANGED <<cameraActive, lastComposite>>

\* PhotoboothController.destroy(): clearTimeout(this.countdownTimer) takes
\* the pending timer of the countdown away, after which nothing settles the
\* promise of startCountdown(); camera.destroy(); gestureHandler.destroy()
controllerDestroy ==
  /\ capture' = IF capture.at = "countdown" THEN [at |-> "cancelled"]
                ELSE capture
  /\ cameraActive' = FALSE
  /\ pointers' = <<>>
  /\ lastGesture' = NoGesture
  /\ isActive' = FALSE
  /\ event' = Event("controllerDestroy", FALSE, FALSE)
  /\ UNCHANGED <<props, selectedProp, smoothVars, addVars, serviceVars>>
  /\ UNCHANGED <<currentOverlay, isCapturing, canvas, previewHidden, logged>>
  /\ UNCHANGED lastComposite

\* the catch and the finally of capturePhoto()
CaptureFailed(log) ==
  /\ logged' = LogError(log, "capturePhoto")
  /\ isCapturing' = FALSE
  /\ capture' = Idle
  /\ UNCHANGED <<previewHidden, lastComposite>>

\* what a composition is made from: the frame and the overlay drawn on cv,
\* the props and their poses, the props whose drawImage throws
CompositeFrom(cv, failing) ==
  [width |-> cv.width, height |-> cv.height,
   overlays |-> {cv.draws[k].src :
                   k \in {j \in DOMAIN cv.draws : cv.draws[j].layer = "overlay"}},
   props |-> props, failing |-> failing]

\* the end of compositeImage() from the loop over the props on, then
\* this.showPreview() and the finally of capturePhoto()
CompositeProps(cv, log, failing) ==
  /\ canvas' = DrawProps(cv, props, 1, failing)
  /\ lastComposite' = [from |-> CompositeFrom(cv, failing),
                       draws |-> canvas'.draws,
                       again |-> lastComposite.from = CompositeFrom(cv, failing)]
  /\ logged' = IF failing = {} THEN log
               ELSE LogError(log, "compositeImage.prop")
  /\ previewHidden' = FALSE
  /\ isCapturing' = FALSE
  /\ capture' = Idle

\* the 200 ms timer resolves startCountdown();
\* camera.capturePhoto(canvas) sizes the canvas to the cropped frame, draws
\* the video on it and returns its data URL; compositeImage() starts and
\* awaits Utils.loadImage(photoDataURL)
countdownDone(size) ==
  /\ capture.at = "shutter"
  /\ cameraActive
  /\ canvas' = DrawImage(Resize(canvas, size[1], size[2]), "video", 0, 0, 0,
                         size[1], size[2], TRUE)
  /\ capture' = [at |-> "loadPhoto", frame |-> size]
  /\ event' = Event("countdownDone", FALSE, FALSE)
  /\ UNCHANGED <<handlerVars, props, selectedProp, smoothVars, addVars, serviceVars>>
  /\ UNCHANGED <<currentOverlay, isCapturing, previewHidden, logged>>
  /\ UNCHANGED <<cameraActive, lastComposite>>

\* camera.capturePhoto(canvas) throws 'Camera not active' or 'Camera not
\* ready'
cameraFailed ==
  /\ capture.at = "shutter"
  /\ CaptureFailed(logged)
  /\ event' = Event("cameraFailed", FALSE, FALSE)
  /\ UNCHANGED <<handlerVars, props, selectedProp, smoothVars, addVars, serviceVars>>
  /\ UNCHANGED <<currentOverlay, canvas, cameraActive>>

\* Utils.loadImage(photoDataURL) resolves: the frame is drawn; with an
\* overlay selected compositeImage() awaits the overlay image, without one
\* it goes on to the props
photoLoaded(failing) ==
  /\ capture.at = "loadPhoto"
  /\ IF currentOverlay # NoOverlay
     THEN /\ canvas' = DrawFrame(canvas, capture.frame)
          /\ capture' = [at |-> "loadOverlay", overlay |-> currentOverlay]
          /\ UNCHANGED <<isCapturing, previewHidden, logged, lastComposite>>
     ELSE CompositeProps(DrawFrame(canvas, capture.frame), logged, failing)
  /\ event' = Event("photoLoaded", FALSE, FALSE)
  /\ UNCHANGED <<handlerVars, props, selectedProp, smoothVars, addVars, serviceVars>>
  /\ UNCHANGED <<currentOverlay, cameraActive>>

\* Utils.loadImage(photoDataURL) rejects: compositeImage() rejects
photoLoadFailed ==
  /\ capture.at = "loadPhoto"
  /\ CaptureFailed(logged)
  /\ event' = Event("photoLoadFailed", FALSE, FALSE)
  /\ UNCHANGED <<handlerVars, props, selectedProp, smoothVars, addVars, serviceVars>>
  /\ UNCHANGED <<currentOverlay, canvas, cameraActive>>

\* Utils.loadImage(this.currentOverlay.src) resolves
overlayLoaded(failing) ==
  /\ capture.at = "loadOverlay"
  /\ CompositeProps(DrawOverlay(canvas, capture.overlay), logged, failing)
  /\ event' = Event("overlayLoaded", FALSE, FALSE)
  /\ UNCHANGED <<handlerVars, props, selectedProp, smoothVars, addVars, serviceVars>>
  /\ UNCHANGED <<currentOverlay, cameraActive>>

\* mutant of overlayLoadFailed: the rejection is not caught in
\* compositeImage()
overlayLoadFailedRethrows(failing) ==
  /\ capture.at = "loadOverlay"
  /\ CaptureFailed(logged)
  /\ event' = Event("overlayLoadFailed", FALSE, FALSE)
  /\ UNCHANGED <<handlerVars, props, selectedProp, smoothVars, addVars, serviceVars>>
  /\ UNCHANGED <<currentOverlay, canvas, cameraActive>>

\* Utils.loadImage(this.currentOverlay.src) rejects: the catch logs it
overlayLoadFailed(failing) ==
  /\ capture.at = "loadOverlay"
  /\ CompositeProps(canvas, LogError(logged, "compositeImage.overlay"),
                    failing)
  /\ event' = Event("overlayLoadFailed", FALSE, FALSE)
  /\ UNCHANGED <<handlerVars, props, selectedProp, smoothVars, addVars, serviceVars>>
  /\ UNCHANGED <<currentOverlay, cameraActive>>

\* a call smoothGesture(gesture, previousGesture, smoothingFactor)
callSmoothGesture ==
  /\ gesture # NoGesture
  /\ smoothed = NoGesture
  /\ smoothed' = smoothGesture(gesture, previousGesture, smoothingFactor)
  /\ event' = Event("smoothGesture", FALSE, FALSE)
  /\ UNCHANGED <<handlerVars, props, selectedProp, captureVars, addVars,
               serviceVars>>
  /\ UNCHANGED <<gesture, previousGesture, smoothingFactor>>

\* ------------------------------------------------------- SessionManager
\* Storage.getPin(): no PIN is ever stored, the default is returned
getPin == DEFAULT_PIN

Returned(of, arg, value) == [of |-> of, arg |-> arg, value |-> value]

\* the timers of decayTimers after a successful validation: none of them
\* belongs to a failure since that validation
Uncounted(timers) == [i \in DOMAIN timers |-> [counted |-> FALSE]]

\* mutant of validatePin: no check of loginAttempts against
\* MAX_LOGIN_ATTEMPTS
validatePinNoLimit(pin) ==
  /\ IF pin # getPin
     THEN /\ Len(decayTimers) < MaxDecayTimers
          /\ loginAttempts' = loginAttempts + 1
          /\ decayTimers' = Append(decayTimers, [counted |-> TRUE])
     ELSE /\ loginAttempts' = 0
          /\ decayTimers' = Uncounted(decayTimers)
  /\ returned' = Returned("validatePin", pin, pin = getPin)
  /\ event' = Event("validatePin", FALSE, FALSE)
  /\ UNCHANGED <<boothVars, sessionVars, storageVars, scanner, camera>>

\* validatePin(pin)
validatePin(pin) ==
  /\ IF loginAttempts >= MAX_LOGIN_ATTEMPTS
     THEN /\ returned' = Returned("validatePin", pin, FALSE)
          /\ UNCHANGED <<loginAttempts, decayTimers>>
     ELSE /\ IF pin # getPin
             THEN /\ Len(decayTimers) < MaxDecayTimers
                  /\ loginAttempts' = loginAttempts + 1
                  /\ decayTimers' = Append(decayTimers, [counted |-> TRUE])
             ELSE /\ loginAttempts' = 0
                  /\ decayTimers' = Uncounted(decayTimers)
          /\ returned' = Returned("validatePin", pin, pin = getPin)
  /\ event' = Event("validatePin", FALSE, FALSE)
  /\ UNCHANGED <<boothVars, sessionVars, storageVars, scanner, camera>>

\* the oldest 60 s timer of validatePin fires:
\*   this.loginAttempts = Math.max(0, this.loginAttempts - 1)
decayFires ==
  /\ decayTimers # <<>>
  /\ loginAttempts' = Max(0, loginAttempts - 1)
  /\ decayTimers' = Tail(decayTimers)
  /\ event' = Event("decayFires", FALSE, FALSE)
  /\ UNCHANGED <<boothVars, returned, sessionVars, storageVars, scanner, camera>>

\* setItem(key, value) stores the value: localStorage is available and
\* isStorageFull() is false
Writable == isAvailable /\ ~storageFull

\* the fields of the SessionManager and the stored session as one record
Manager ==
  [ currentSession |-> currentSession, storedSession |-> storedSession,
    timeoutId |-> timeoutId ]

\* saveSession(): Storage.setSession(this.currentSession)
saveSession(sm) ==
  IF sm.currentSession # NoSession /\ Writable
  THEN [sm EXCEPT !.storedSession = sm.currentSession]
  ELSE sm

\* clearTimeout()
clearTimeout(sm) == [sm EXCEPT !.timeoutId = NoTimer]

\* mutant of clearSession: Storage.clearSession() is not called
clearSessionKeepsStored(sm) ==
  [ currentSession |-> NoSession, storedSession |-> sm.storedSession,
    timeoutId |-> NoTimer ]

\* clearSession(): removeItem does nothing when localStorage is not
\* available
clearSession(sm) ==
  [ currentSession |-> NoSession,
    storedSession |-> IF isAvailable THEN NoSession ELSE sm.storedSession,
    timeoutId |-> NoTimer ]

\* endSession()
endSession(sm) ==
  clearSession(IF sm.currentSession # NoSession
               THEN saveSession([sm EXCEPT !.currentSession.isActive = FALSE])
               ELSE sm)

\* handleSessionTimeout()
handleSessionTimeout(sm) == endSession(sm)

\* resetTimeout(): the timer is set for expiresAt
resetTimeout(sm) ==
  LET c == clearTimeout(sm)
  IN  IF c.currentSession = NoSession THEN c
      ELSE IF c.currentSession.expiresAt - now > 0
      THEN [c EXCEPT !.timeoutId = c.currentSession.expiresAt]
      ELSE handleSessionTimeout(c)

\* isValidSession(session); id, type and createdAt are set in every session
\* createSession makes
isValidSession(session) ==
  /\ session # NoSession
  /\ ~(now > session.expiresAt)
  /\ session.isActive

\* getCurrentSession()
getCurrentSession ==
  IF currentSession # NoSession /\ isValidSession(currentSession)
  THEN currentSession
  ELSE NoSession

\* isAuthenticated()
isAuthenticated == getCurrentSession # NoSession

\* the SessionManager and the stored session become sm
Becomes(sm, type) ==
  /\ currentSession' = sm.currentSession
  /\ storedSession' = sm.storedSession
  /\ timeoutId' = sm.timeoutId
  /\ event' = Event(type, FALSE, FALSE)
  /\ UNCHANGED <<boothVars, returned, pinVars, now, storageVars, scanner, camera>>

\* createSession(type, data); the id is not read by the manager
createSession ==
  LET session == [id |-> 1, isActive |-> TRUE, expiresAt |-> now + SessionTicks]
  IN  Becomes(resetTimeout(saveSession([Manager EXCEPT
                                          !.currentSession = session])),
              "createSession")

\* loadSession(); Storage.getSession() is null when localStorage is not
\* available
loadSession ==
  LET sessionData == IF isAvailable THEN storedSession ELSE NoSession
  IN  Becomes(IF isValidSession(sessionData)
              THEN resetTimeout([Manager EXCEPT !.currentSession = sessionData])
              ELSE clearSession(Manager),
              "loadSession")

\* extendSession(additionalTime) and updateActivity(), which extends by
\* SESSION_TIMEOUT
extendSession(additionalTime, type) ==
  Becomes(IF currentSession # NoSession
          THEN resetTimeout(saveSession([Manager EXCEPT
                 !.currentSession.expiresAt = now + additionalTime]))
          ELSE Manager,
          type)

updateActivity == extendSession(SessionTicks, "updateActivity")

\* a call of endSession()
callEndSession == Becomes(endSession(Manager), "endSession")

\* a call of clearSession()
callClearSession == Becomes(clearSession(Manager), "clearSession")

\* the timer of resetTimeout() fires, at its time or later
sessionTimeout ==
  /\ timeoutId # NoTimer
  /\ now >= timeoutId
  /\ Becomes(handleSessionTimeout(Manager), "sessionTimeout")

\* SessionManager.destroy()
sessionDestroy ==
  Becomes([clearTimeout(Manager) EXCEPT !.currentSession = NoSession],
          "sessionDestroy")

\* time passes
tick ==
  /\ now < MaxTime
  /\ now' = now + 1
  /\ event' = Event("tick", FALSE, FALSE)
  /\ UNCHANGED <<boothVars, returned, pinVars, storageVars, scanner, camera>>
  /\ UNCHANGED <<currentSession, storedSession, timeoutId>>

\* localStorage goes above, or comes back below, 90% of the assumed quota
\* (writes of this page or of another page of the origin)
storageFills ==
  /\ isAvailable
  /\ storageFull' = ~storageFull
  /\ event' = Event("storageFills", FALSE, FALSE)
  /\ UNCHANGED <<boothVars, returned, pinVars, sessionVars, scanner, camera>>
  /\ UNCHANGED <<isAvailable, storedPhotos, storedCodes, photoAdds>>

\* ------------------------------------------------------- StorageManager
\* getPhotos(): getItem(CONFIG.STORAGE.KEYS.PHOTOS, [])
getPhotos ==
  IF isAvailable /\ storedPhotos # NoItem THEN storedPhotos.value ELSE <<>>

\* mutant of SliceLast: photos.slice(0, n)
SliceFirst(list, n) == SubSeq(list, 1, n)

\* photos.slice(-n) of a list of more than n elements
SliceLast(list, n) == SubSeq(list, Len(list) - n + 1, Len(list))

\* setPhotos(list): the stored list after it, and the value it returns in
\* returned
setPhotos(list, of, arg) ==
  LET kept == IF Len(list) > MAX_PHOTOS
              THEN SliceLast(list, CLEANUP_THRESHOLD)
              ELSE list
  IN  /\ storedPhotos' = IF Writable THEN Item(kept) ELSE storedPhotos
      /\ returned' = Returned(of, arg, Writable)
      /\ event' = Event(of, FALSE, FALSE)
      /\ UNCHANGED <<boothVars, pinVars, sessionVars, scanner, camera>>
      /\ UNCHANGED <<isAvailable, storageFull, storedCodes>>

\* a call of setPhotos(photos)
callSetPhotos(list) ==
  /\ setPhotos(list, "setPhotos", list)
  /\ UNCHANGED photoAdds

\* addPhoto(photo)
addPhoto(photo) ==
  /\ photoAdds < MaxPhotoAdds
  /\ photoAdds' = photoAdds + 1
  /\ setPhotos(Append(getPhotos, photo), "addPhoto", photo)

\* filter(photo => photo.id !== photoId)
Without(list, photoId) == SelectSeq(list, LAMBDA photo : photo # photoId)

\* removePhoto(photoId)
removePhoto(photoId) ==
  /\ setPhotos(Without(getPhotos, photoId), "removePhoto", photoId)
  /\ UNCHANGED photoAdds

\* codes.join('\n')
RECURSIVE Join(_)
Join(codes) ==
  IF codes = <<>> THEN <<>>
  ELSE IF Len(codes) = 1 THEN codes[1]
  ELSE codes[1] \o <<LineFeed>> \o Join(Tail(codes))

\* str.split(/\r?\n/)
RECURSIVE Split(_, _)
Split(str, piece) ==
  IF str = <<>> THEN <<piece>>
  ELSE IF Head(str) = LineFeed
  THEN <<piece>> \o Split(Tail(str), <<>>)
  ELSE IF Head(str) = CarriageReturn /\ Len(str) > 1 /\ str[2] = LineFeed
  THEN <<piece>> \o Split(Tail(Tail(str)), <<>>)
  ELSE Split(Tail(str), Append(piece, Head(str)))

\* s.trim()
RECURSIVE Trim(_)
Trim(str) ==
  IF str = <<>> THEN str
  ELSE IF Head(str) \in WhiteSpace THEN Trim(Tail(str))
  ELSE IF str[Len(str)] \in WhiteSpace THEN Trim(SubSeq(str, 1, Len(str) - 1))
  ELSE str

\* getApprovedCodes(): an item that is missing or that is the empty string
\* is falsy, the default codes are returned for it
getApprovedCodes ==
  LET codes == IF isAvailable THEN storedCodes ELSE NoItem
  IN  IF codes # NoItem /\ codes.value # <<>>
      THEN LET pieces == Split(codes.value, <<>>)
               trimmed == [i \in DOMAIN pieces |-> Trim(pieces[i])]
           IN  SelectSeq(trimmed, LAMBDA s : s # <<>>)
      ELSE DEFAULT_APPROVED_CODES

\* setApprovedCodes(codes)
setApprovedCodes(codes) ==
  /\ storedCodes' = IF Writable THEN Item(Join(codes)) ELSE storedCodes
  /\ returned' = Returned("setApprovedCodes", codes, Writable)
  /\ event' = Event("setApprovedCodes", FALSE, FALSE)
  /\ UNCHANGED <<boothVars, pinVars, sessionVars, scanner, camera>>
  /\ UNCHANGED <<isAvailable, storageFull, storedPhotos, photoAdds>>

\* QRScanner.verifyManualCode(code) for a code sanitizeCode leaves as it
\* is: the value of approved
verifyManualCode(code) ==
  /\ returned' = Returned("verifyManualCode", code,
                          \E i \in DOMAIN getApprovedCodes :
                            getApprovedCodes[i] = code)
  /\ event' = Event("verifyManualCode", FALSE, FALSE)
  /\ UNCHANGED <<boothVars, pinVars, sessionVars, storageVars, scanner, camera>>

\* ------------------------------------------------------------ QRScanner
\* null for a stream, an animation frame and a timer of the scanner
NoStream == 0

NoFrame == 0

\* an id no member of used has: a new stream, a new animation frame, a new
\* timer
FreshIn(used) == CHOOSE n \in 1..(Cardinality(used) + 1) : n \notin used

\* the scanner after its constructor. ready: video and onScanCallback are
\* set; starts: the startScanning() calls suspended at an await; stopped:
\* stopScanning() has run and startScanning() was not called since;
\* callbacks: the calls of onScanCallback since isScanning became true
NewScanner ==
  [ ready |-> FALSE, stream |-> NoStream, isScanning |-> FALSE,
    detector |-> FALSE, animationFrame |-> NoFrame, scanTimeout |-> NoTimer,
    starts |-> {}, startCalls |-> 0, liveStreams |-> {},
    pendingFrames |-> {}, pendingTimeouts |-> {}, pendingDetects |-> 0,
    callbacks |-> 0, stopped |-> FALSE ]

\* stopScanning()
stopScanning(sc) ==
  [ sc EXCEPT
      !.isScanning = FALSE,
      !.pendingFrames = @ \ {sc.animationFrame},
      !.animationFrame = NoFrame,
      !.pendingTimeouts = @ \ {sc.scanTimeout},
      !.scanTimeout = NoTimer,
      !.liveStreams = @ \ {sc.stream},
      !.stream = NoStream,
      !.detector = FALSE,
      !.stopped = TRUE ]

\* this.animationFrame = requestAnimationFrame(() => this.startDetectionLoop())
RequestFrame(sc) ==
  LET frame == FreshIn(sc.pendingFrames \cup {sc.animationFrame})
  IN  [sc EXCEPT !.animationFrame = frame, !.pendingFrames = @ \cup {frame}]

\* startDetectionLoop(); hasWidth: the video has decoded a frame of its
\* source, and without a source its videoWidth is 0; reading
\* this.video.videoWidth throws when the video is null
startDetectionLoop(sc, hasWidth) ==
  IF ~sc.isScanning \/ ~sc.detector THEN RequestFrame(sc)
  ELSE IF ~sc.ready THEN sc
  ELSE IF sc.stream = NoStream \/ ~hasWidth THEN RequestFrame(sc)
  ELSE RequestFrame([sc EXCEPT !.pendingDetects = @ + 1])

\* mutant of handleScanResult: the callback is called without stopScanning()
handleScanResultNoStop(sc, valid) ==
  IF ~sc.isScanning \/ ~valid THEN sc
  ELSE IF sc.ready THEN [sc EXCEPT !.callbacks = @ + 1] ELSE sc

\* handleScanResult(code); valid: sanitizeCode(code) is not null
handleScanResult(sc, valid) ==
  IF ~sc.isScanning \/ ~valid THEN sc
  ELSE LET st == stopScanning(sc)
       IN  IF st.ready THEN [st EXCEPT !.callbacks = @ + 1] ELSE st

\* the scanner becomes sc
ScannerBecomes(sc, type, called) ==
  /\ scanner' = sc
  /\ event' = Event(type, called, FALSE)
  /\ UNCHANGED <<boothVars, returned, pinVars, sessionVars, storageVars, camera>>

\* init(videoElement, onScan)
scannerInit ==
  /\ ~scanner.ready
  /\ ScannerBecomes([scanner EXCEPT !.ready = TRUE], "scannerInit", FALSE)

\* startScanning() up to await getUserMedia(): it throws when the scanner
\* is not initialized
startScanning ==
  /\ scanner.startCalls < MaxScanStarts
  /\ ScannerBecomes(
       IF ~scanner.ready
       THEN [scanner EXCEPT !.startCalls = @ + 1, !.stopped = FALSE]
       ELSE [stopScanning(scanner) EXCEPT
               !.startCalls = @ + 1,
               !.starts = @ \cup {[call |-> scanner.startCalls + 1,
                                   at |-> "getUserMedia"]},
               !.stopped = FALSE],
       "startScanning", FALSE)

\* the start but the one of this call
Resumed(sc, start) == [sc EXCEPT !.starts = @ \ {start}]

\* getUserMedia() resolves for a suspended startScanning(): the stream is
\* assigned; this.video.srcObject = ... throws when the video is null, and
\* with a video the call suspends at await this.video.play()
scanStreamAcquired(start) ==
  /\ start \in scanner.starts
  /\ start.at = "getUserMedia"
  /\ LET stream == FreshIn(scanner.liveStreams)
         sc == [Resumed(scanner, start) EXCEPT
                  !.stream = stream, !.liveStreams = @ \cup {stream}]
     IN  ScannerBecomes(
           IF sc.ready
           THEN [sc EXCEPT !.starts = @ \cup {[call |-> start.call,
                                               at |-> "play"]}]
           ELSE sc,
           "scanStreamAcquired", FALSE)

\* getUserMedia() or video.play() rejects for a suspended startScanning():
\* its catch
scanStartFailed(start) ==
  /\ start \in scanner.starts
  /\ ScannerBecomes(Resumed(scanner, start), "scanStartFailed", FALSE)

\* video.play() resolves for a suspended startScanning(): the detector is
\* made, isScanning set, the detection loop started and the scan timeout set;
\* when startDetectionLoop() throws the timeout is not set. A browser
\* without BarcodeDetector takes the catch as scanStartFailed does.
scanStarted(start, hasWidth) ==
  /\ start \in scanner.starts
  /\ start.at = "play"
  /\ LET sc == [Resumed(scanner, start) EXCEPT
                  !.detector = TRUE, !.isScanning = TRUE, !.callbacks = 0]
         looped == startDetectionLoop(sc, hasWidth)
         timer == FreshIn(looped.pendingTimeouts \cup {looped.scanTimeout})
     IN  ScannerBecomes(
           IF sc.ready
           THEN [looped EXCEPT !.scanTimeout = timer,
                               !.pendingTimeouts = @ \cup {timer}]
           ELSE looped,
           "scanStarted", FALSE)

\* an animation frame that was requested and not cancelled runs
\* startDetectionLoop()
frameFires(frame, hasWidth) ==
  /\ frame \in scanner.pendingFrames
  /\ scanner.pendingDetects < MaxDetects
  /\ ScannerBecomes(
       startDetectionLoop([scanner EXCEPT !.pendingFrames = @ \ {frame}],
                          hasWidth),
       "frameFires", FALSE)

\* a detect() in flight resolves or rejects; found: it resolves with a code;
\* valid: sanitizeCode accepts the code. The second component of the event
\* tells whether onScanCallback was called.
detectSettles(found, valid) ==
  /\ scanner.pendingDetects > 0
  /\ LET sc == [scanner EXCEPT !.pendingDetects = @ - 1]
         after == IF found /\ sc.isScanning /\ sc.ready
                  THEN handleScanResult(sc, valid)
                  ELSE sc
     IN  ScannerBecomes(after, "detectSettles",
                        after.callbacks # sc.callbacks)

\* the scan timeout fires: stopScanning()
scanTimeoutFires(timer) ==
  /\ timer \in scanner.pendingTimeouts
  /\ ScannerBecomes(
       stopScanning([scanner EXCEPT !.pendingTimeouts = @ \ {timer}]),
       "scanTimeoutFires", FALSE)

\* a call of stopScanning()
callStopScanning ==
  ScannerBecomes(stopScanning(scanner), "stopScanning", FALSE)

\* QRScanner.destroy()
scannerDestroy ==
  ScannerBecomes([stopScanning(scanner) EXCEPT !.ready = FALSE],
                 "scannerDestroy", FALSE)

\* -------------------------------------------------------- CameraManager
\* the camera manager after its constructor. isInitialized: init() has set
\* the video and destroy() has not cleared it; starts: the startCamera()
\* calls suspended at an await; liveStreams: the acquired streams whose
\* tracks are not stopped; stopped: stopCamera() or destroy() has run and
\* startCamera() was not called since
NewCamera ==
  [ isInitialized |-> FALSE, stream |-> NoStream, facingMode |-> "user",
    mirror |-> TRUE, starts |-> {}, startCalls |-> 0, liveStreams |-> {},
    stopped |-> FALSE ]

\* stopCamera()
stopCamera(cam) ==
  [ cam EXCEPT !.liveStreams = @ \ {cam.stream},
               !.stream = NoStream,
               !.stopped = TRUE ]

\* startCamera() up to await getUserMedia(): it throws when the manager is
\* not initialized
beginStart(cam) ==
  IF ~cam.isInitialized
  THEN [cam EXCEPT !.startCalls = @ + 1, !.stopped = FALSE]
  ELSE [stopCamera(cam) EXCEPT
          !.startCalls = @ + 1,
          !.starts = @ \cup {[call |-> cam.startCalls + 1,
                              at |-> "getUserMedia"]},
          !.stopped = FALSE]

\* the camera manager becomes cam
CameraBecomes(cam, type) ==
  /\ camera' = cam
  /\ event' = Event(type, FALSE, FALSE)
  /\ UNCHANGED <<boothVars, returned, pinVars, sessionVars, storageVars, scanner>>

\* init(videoElement)
cameraInit ==
  /\ ~camera.isInitialized
  /\ CameraBecomes([camera EXCEPT !.isInitialized = TRUE], "cameraInit")

\* a call of startCamera()
startCamera ==
  /\ camera.startCalls < MaxCameraStarts
  /\ CameraBecomes(beginStart(camera), "startCamera")

\* a call of switchCamera(): the facing mode and the mirror change, then
\* startCamera()
switchCamera ==
  /\ camera.startCalls < MaxCameraStarts
  /\ LET facing == IF camera.facingMode = "user" THEN "environment"
                   ELSE "user"
     IN  CameraBecomes(
           beginStart([camera EXCEPT !.facingMode = facing,
                                     !.mirror = (facing = "user")]),
           "switchCamera")

\* getUserMedia() resolves for a suspended startCamera(): the stream is
\* assigned; this.video.srcObject = ... throws when the video is null, and
\* with a video the call suspends at await this.video.play()
cameraStreamAcquired(start) ==
  /\ start \in camera.starts
  /\ start.at = "getUserMedia"
  /\ LET stream == FreshIn(camera.liveStreams)
         cam == [camera EXCEPT !.starts = @ \ {start},
                               !.stream = stream,
                               !.liveStreams = @ \cup {stream}]
     IN  CameraBecomes(
           IF cam.isInitialized
           THEN [cam EXCEPT !.starts = @ \cup {[call |-> start.call,
                                                at |-> "play"]}]
           ELSE cam,
           "cameraStreamAcquired")

\* getUserMedia() or video.play() rejects for a suspended startCamera():
\* its catch
cameraStartFailed(start) ==
  /\ start \in camera.starts
  /\ CameraBecomes([camera EXCEPT !.starts = @ \ {start}],
                   "cameraStartFailed")

\* video.play() resolves for a suspended startCamera(): it returns true
cameraStarted(start) ==
  /\ start \in camera.starts
  /\ start.at = "play"
  /\ CameraBecomes([camera EXCEPT !.starts = @ \ {start}], "cameraStarted")

\* a call of stopCamera()
callStopCamera ==
  CameraBecomes(stopCamera(camera), "stopCamera")

\* CameraManager.destroy()
cameraDestroy ==
  CameraBecomes([stopCamera(camera) EXCEPT !.isInitialized = FALSE],
                "cameraDestroy")

\* ------------------------------------------------------- specification
\* the state after the constructors, apart from smoothGesture's arguments
InitBooth ==
  /\ pointers = <<>>
  /\ lastGesture = NoGesture
  /\ isActive = TRUE
  /\ props = <<>>
  /\ selectedProp = NoProp
  /\ event = Event("init", FALSE, FALSE)
  /\ currentOverlay = NoOverlay
  /\ isCapturing = FALSE
  /\ capture = Idle
  /\ canvas = BlankCanvas
  /\ previewHidden = TRUE
  /\ logged = {}
  /\ cameraActive = TRUE
  /\ lastComposite = NoComposite
  /\ pending = <<>>
  /\ addRequests = 0
  /\ requestOf = <<>>
  /\ smoothed = NoGesture
  /\ returned = NoCall
  /\ loginAttempts = 0
  /\ decayTimers = <<>>
  /\ now = 0
  /\ currentSession = NoSession
  /\ storedSession = NoSession
  /\ timeoutId = NoTimer
  /\ storageFull = FALSE
  /\ storedPhotos = NoItem
  /\ storedCodes = NoItem
  /\ photoAdds = 0
  /\ scanner = NewScanner
  /\ camera = NewCamera

Init ==
  /\ InitBooth
  /\ gesture = NoGesture
  /\ previousGesture = NoGesture
  /\ smoothingFactor = NoFactor
  /\ isAvailable = TRUE

\* localStorage usable or not when the StorageManager is constructed
InitStorage ==
  /\ InitBooth
  /\ gesture = NoGesture
  /\ previousGesture = NoGesture
  /\ smoothingFactor = NoFactor
  /\ isAvailable \in BOOLEAN

\* smoothGesture about to be called with any of the gestures
InitSmooth ==
  /\ InitBooth
  /\ gesture \in TranslateGestures \cup TransformGestures
  /\ previousGesture \in {NoGesture} \cup TranslateGestures \cup TransformGestures
  /\ smoothingFactor \in SmoothingFactors
  /\ isAvailable = TRUE

\* every event the environment can deliver: pointer ids and positions from
\* ids and positions, at most limit props in the list
Env(ids, positions, limit) ==
  \/ \E id \in ids, pos \in positions : handlePointerDown(id, pos)
  \/ \E id \in ids, pos \in positions : handlePointerMove(id, pos)
  \/ \E id \in ids : handlePointerUp(id)
  \/ \E id \in ids : handlePointerCancel(id)
  \/ \E c \in 1..Len(Catalog) : addProp(c, limit)
  \/ \E c \in 1..Len(Catalog) : addPropFailed(c)
  \/ \E id \in Ids(props) : removeProp(id)
  \/ destroy

\* two props, two pointers
Next == Env(PointerIds, FewPositions, MaxProps)

Spec == Init /\ [][Next]_vars

\* one prop, two pointers, raw scales below, within and above the range
NextSingle == Env(PointerIds, Positions, MaxPropsSingle)

SpecSingle == Init /\ [][NextSingle]_vars

\* one prop, two pointers, rotations by pi/2
NextGeom == Env(PointerIds, GeomPositions, MaxPropsSingle)

SpecGeom == Init /\ [][NextGeom]_vars

\* one prop, three pointers
NextMulti == Env(MultiPointerIds, FewPositions, MaxPropsSingle)

SpecMulti == Init /\ [][NextMulti]_vars

\* one prop, two pointers, positions outside the canvas on every side
NextEdge == Env(PointerIds, EdgePositions, MaxPropsSingle)

SpecEdge == Init /\ [][NextEdge]_vars

\* one prop, two pointers 100 px and 200 px apart
NextScale == Env(PointerIds, ScalePositions, MaxPropsSingle)

SpecScale == Init /\ [][NextScale]_vars

\* the capture pipeline: three props at their initial pose, two overlays
NextComposite ==
  \/ \E c \in 1..Len(Catalog) : addProp(c, MaxPropsComposite)
  \/ \E overlay \in Overlays : selectOverlay(overlay)
  \/ capturePhoto
  \/ countdownTick
  \/ \E size \in FrameSizes : countdownDone(size)
  \/ cameraFailed
  \/ \E failing \in SUBSET Ids(props) : photoLoaded(failing)
  \/ photoLoadFailed
  \/ \E failing \in SUBSET Ids(props) : overlayLoaded(failing)
  \/ \E failing \in SUBSET Ids(props) : overlayLoadFailed(failing)
  \/ retakePhoto

SpecComposite == Init /\ [][NextComposite]_vars

\* one prop dragged by one pointer while a capture is requested, counts
\* down, loads the frame and composes
NextDrag ==
  \/ \E c \in 1..Len(Catalog) : addProp(c, MaxPropsSingle)
  \/ \E id \in DragPointerIds, pos \in FewPositions : handlePointerDown(id, pos)
  \/ \E id \in DragPointerIds, pos \in FewPositions : handlePointerMove(id, pos)
  \/ \E id \in DragPointerIds : handlePointerUp(id)
  \/ capturePhoto
  \/ countdownTick
  \/ \E size \in FrameSizes : countdownDone(size)
  \/ \E failing \in SUBSET Ids(props) : photoLoaded(failing)

SpecDrag == Init /\ [][NextDrag]_vars

\* addProp() calls whose image loads settle in any order, one pointer
\* selecting among the props
NextAdd ==
  \/ \E c \in 1..Len(Catalog) : requestAddProp(c)
  \/ \E k \in 1..Len(pending) : addPropLoaded(k)
  \/ \E k \in 1..Len(pending) : addPropLoadFailed(k)
  \/ \E id \in DragPointerIds, pos \in FewPositions : handlePointerDown(id, pos)
  \/ \E id \in DragPointerIds : handlePointerUp(id)

SpecAdd == Init /\ [][NextAdd]_vars

\* the capture pipeline of a controller that can be destroyed: one prop,
\* two overlays
NextCapture ==
  \/ \E c \in 1..Len(Catalog) : addProp(c, MaxPropsSingle)
  \/ \E overlay \in Overlays : selectOverlay(overlay)
  \/ capturePhoto
  \/ countdownTick
  \/ \E size \in FrameSizes : countdownDone(size)
  \/ cameraFailed
  \/ \E failing \in SUBSET Ids(props) : photoLoaded(failing)
  \/ photoLoadFailed
  \/ \E failing \in SUBSET Ids(props) : overlayLoaded(failing)
  \/ \E failing \in SUBSET Ids(props) : overlayLoadFailed(failing)
  \/ retakePhoto
  \/ controllerDestroy

\* a timer that is set and not cleared fires, camera.capturePhoto returns or
\* throws, and an image load resolves or rejects
CaptureProgress ==
  /\ WF_vars(countdownTick)
  /\ WF_vars((\E size \in FrameSizes : countdownDone(size)) \/ cameraFailed)
  /\ WF_vars((\E failing \in SUBSET Ids(props) : photoLoaded(failing))
               \/ photoLoadFailed)
  /\ WF_vars(\E failing \in SUBSET Ids(props) :
                overlayLoaded(failing) \/ overlayLoadFailed(failing))

SpecCapture == Init /\ [][NextCapture]_vars /\ CaptureProgress

\* smoothGesture on every pair of gestures
NextSmooth == callSmoothGesture

SpecSmooth == InitSmooth /\ [][NextSmooth]_vars

\* PIN entry: validatePin calls and their decay timers
NextPin ==
  \/ \E pin \in Pins : validatePin(pin)
  \/ decayFires

SpecPin == Init /\ [][NextPin]_vars

\* one session manager: sessions created, loaded, extended, ended and
\* timing out
NextSession ==
  \/ createSession
  \/ loadSession
  \/ updateActivity
  \/ \E t \in 1..SessionTicks : extendSession(t, "extendSession")
  \/ callEndSession
  \/ callClearSession
  \/ sessionTimeout
  \/ sessionDestroy
  \/ tick
  \/ storageFills

SpecSession == Init /\ [][NextSession]_vars

\* the stored photo list
NextPhotos ==
  \/ \E list \in PhotoLists : callSetPhotos(list)
  \/ \E photo \in NewPhotos : addPhoto(photo)
  \/ \E photoId \in RemovedIds : removePhoto(photoId)
  \/ storageFills

SpecPhotos == InitStorage /\ [][NextPhotos]_vars

\* the stored approved codes
NextCodes ==
  \/ \E codes \in CodeLists : setApprovedCodes(codes)
  \/ \E code \in Codes : verifyManualCode(code)
  \/ storageFills

SpecCodes == InitStorage /\ [][NextCodes]_vars

\* one QR scanner: startScanning() calls, their awaits, the detection loop,
\* the scan timeout, stopScanning() and destroy() in any order
NextScan ==
  \/ scannerInit
  \/ startScanning
  \/ \E start \in scanner.starts : scanStreamAcquired(start)
  \/ \E start \in scanner.starts : scanStartFailed(start)
  \/ \E start \in scanner.starts, hasWidth \in BOOLEAN :
       scanStarted(start, hasWidth)
  \/ \E frame \in scanner.pendingFrames, hasWidth \in BOOLEAN :
       frameFires(frame, hasWidth)
  \/ \E found, valid \in BOOLEAN : detectSettles(found, valid)
  \/ \E timer \in scanner.pendingTimeouts : scanTimeoutFires(timer)
  \/ callStopScanning
  \/ scannerDestroy

SpecScan == Init /\ [][NextScan]_vars

\* one camera manager: startCamera() and switchCamera() calls, their
\* awaits, stopCamera() and destroy() in any order
NextCamera ==
  \/ cameraInit
  \/ startCamera
  \/ switchCamera
  \/ \E start \in camera.starts : cameraStreamAcquired(start)
  \/ \E start \in camera.starts : cameraStartFailed(start)
  \/ \E start \in camera.starts : cameraStarted(start)
  \/ callStopCamera
  \/ cameraDestroy

SpecCamera == Init /\ [][NextCamera]_vars

\* ------------------------------------------------------------- claims
PointerEventTypes == {"pointerdown", "pointermove", "pointerup", "pointercancel"}

\* the prop with id sel, for sel in the list
PropOf(sel) == props[CHOOSE i \in 1..Len(props) : props[i].id = sel]

\* the id of the last prop of the list whose index is in hits, NoProp for none
Topmost(hits) ==
  IF hits = {} THEN NoProp
  ELSE props[CHOOSE i \in hits : \A j \in hits : j <= i].id

\* C1: every prop of the list has x and y in [0, 1] and scale in
\* [MIN_SCALE, MAX_SCALE], whatever props were added and removed and
\* whatever pointer events were handled.
C1_PoseInRange ==
  \A i \in 1..Len(props) :
    /\ props[i].x >= 0 /\ props[i].x <= NormDen
    /\ props[i].y >= 0 /\ props[i].y <= NormDen
    /\ props[i].scale >= MIN_SCALE_SQ /\ props[i].scale <= MAX_SCALE_SQ

\* a one-pointer move left of the canvas has just put the selected prop on
\* the left edge; its scale is the MAX_SCALE an earlier two-pointer move
\* with a raw scale above it left
C1_Witness ==
  /\ event.type = "pointermove" /\ event.tracked
  /\ lastGesture.type = "translate"
  /\ lastGesture.x < 0
  /\ \E i \in 1..Len(props) :
       /\ props[i].id = selectedProp
       /\ props[i].x = 0
       /\ props[i].scale = MAX_SCALE_SQ

\* C2: the retained gesture matches the number of active pointers: none
\* for zero pointers, a Translate at the normalized position of the single
\* pointer for one, a Transform for two.
C2_GestureMatchesPointers ==
  /\ Len(pointers) = 0 => lastGesture = NoGesture
  /\ Len(pointers) = 1 =>
       lastGesture = [ type |-> "translate",
                       x |-> (pointers[1].x * NormDen) \div CanvasW,
                       y |-> (pointers[1].y * NormDen) \div CanvasH ]
  /\ Len(pointers) = 2 => lastGesture.type = "transform"

\* a pointer has just lifted and left one pointer: the gesture is a
\* Translate again
C2_Witness ==
  /\ event.type = "pointerup" /\ event.tracked
  /\ Len(pointers) = 1
  /\ lastGesture.type = "translate"

QuarterTurns == { <<1, 0>>, <<0, 1>>, <<-1, 0>>, <<0, -1>> }

\* the box of a prop turned by a multiple of pi/2, as it is drawn: after a
\* turn of pi/2 or -pi/2 the box is height * scale wide and width * scale
\* high on the surface
InRotatedBox(prop, x, y) ==
  IF prop.rotation \in { <<0, 1>>, <<0, -1>> }
  THEN /\ Within(x - prop.x, prop.height, prop.scale, CanvasW)
       /\ Within(y - prop.y, prop.width, prop.scale, CanvasH)
  ELSE InBox(prop, x, y)

\* C3: hit-testing on pointer-down is rotation-aware: a first pointer-down
\* selects the topmost prop whose rotated box contains the pointer (stated
\* for props turned by multiples of pi/2).
C3_RotationAwareHit ==
  ( /\ event.type = "pointerdown"
    /\ Len(pointers) = 1
    /\ \A i \in 1..Len(props) : props[i].rotation \in QuarterTurns )
  => selectedProp =
       Topmost({ i \in 1..Len(props) :
                   InRotatedBox(props[i], (pointers[1].x * NormDen) \div CanvasW,
                                          (pointers[1].y * NormDen) \div CanvasH) })

\* C4: a pointer-down that makes the pointer count 1 selects the last
\* inserted prop whose box contains the pointer, and no prop when none does.
C4_TopmostHitSelected ==
  (event.type = "pointerdown" /\ Len(pointers) = 1)
  => selectedProp =
       Topmost({ i \in 1..Len(props) :
                   InBox(props[i], (pointers[1].x * NormDen) \div CanvasW,
                                   (pointers[1].y * NormDen) \div CanvasH) })

\* a first pointer-down on two overlapping props has selected the upper one
C4_Witness ==
  /\ event.type = "pointerdown"
  /\ Len(pointers) = 1
  /\ Len(props) = 2
  /\ \A i \in 1..2 :
       InBox(props[i], (pointers[1].x * NormDen) \div CanvasW,
                       (pointers[1].y * NormDen) \div CanvasH)
  /\ selectedProp = props[2].id

\* C5: a pointer event keeps the list's props and changes the pose of the
\* selected prop at most; with no prop selected a pointer-move changes no
\* prop and not the selection.
C5_OnlySelectedPoseChanges ==
  [][ event'.type \in PointerEventTypes =>
        /\ Len(props') = Len(props)
        /\ \A i \in 1..Len(props) :
             /\ props'[i].id = props[i].id
             /\ props[i].id # selectedProp => props'[i] = props[i]
        /\ (event'.type = "pointermove" /\ selectedProp = NoProp) =>
             (props' = props /\ selectedProp' = selectedProp) ]_vars

\* a two-pointer move has just written the selected prop of two; the other
\* prop still has the pose it was added with
C5_Witness ==
  /\ event.type = "pointermove" /\ event.tracked
  /\ lastGesture.type = "transform"
  /\ Len(props) = 2
  /\ \E i, j \in 1..2 :
       /\ props[i].id = selectedProp
       /\ props[i].rotation = lastGesture.rotation
       /\ props[i].rotation # ZeroAngle
       /\ props[j].id # selectedProp
       /\ props[j].x = HALF /\ props[j].y = HALF
       /\ props[j].scale = UNIT_SCALE_SQ /\ props[j].rotation = ZeroAngle

\* C6 as claimed: adding a prop while another prop is selected does not
\* change the selection.
C6_AddKeepsSelection ==
  [][ (event'.type = "addProp" /\ selectedProp # NoProp) =>
        selectedProp' = selectedProp ]_vars

\* C6 as amended: a successful addProp makes the prop it appended the
\* selection; any other change of the selection is made by a pointer-down
\* that makes the pointer count 1 or by the removal of the selected prop.
C6_AddSelectsNewProp ==
  [][ /\ event'.type = "addProp" =>
           /\ Len(props') = Len(props) + 1
           /\ selectedProp' = props'[Len(props')].id
           /\ selectedProp' \notin Ids(props)
      /\ selectedProp' # selectedProp =>
           \/ event'.type = "addProp"
           \/ event'.type = "pointerdown" /\ Len(pointers') = 1
           \/ /\ event'.type = "removeProp"
              /\ selectedProp' = NoProp
              /\ selectedProp \notin Ids(props') ]_vars

\* a prop has just been added while another prop was selected: the new prop
\* is the selection
C6_Witness ==
  /\ event.type = "addProp" /\ event.selected
  /\ Len(props) = 2
  /\ selectedProp = props[2].id

\* C7: the selection is none or a prop of the list.
C7_SelectionInList ==
  selectedProp = NoProp \/ selectedProp \in Ids(props)

\* the selected prop of two has just been removed: nothing is selected
C7_Witness ==
  /\ event.type = "removeProp" /\ event.selected
  /\ Len(props) = 1
  /\ selectedProp = NoProp

OutOfRange(g) ==
  g.type = "transform" /\ (g.scale < MIN_SCALE_SQ \/ g.scale > MAX_SCALE_SQ)

\* C9 as claimed: a two-pointer move whose Transform has a scale outside
\* [MIN_SCALE, MAX_SCALE] leaves every prop as it was.
C9_OutOfRangeDiscarded ==
  [][ (event'.type = "pointermove" /\ event'.tracked /\ OutOfRange(lastGesture'))
      => props' = props ]_vars

\* C9 as amended: such a Transform is not discarded but applied: the
\* selected prop gets the clamped centre, the gesture's rotation and the
\* bound of the scale range nearest to the raw scale.
C9_OutOfRangeApplied ==
  ( /\ event.type = "pointermove" /\ event.tracked
    /\ Len(pointers) = 2
    /\ OutOfRange(lastGesture)
    /\ selectedProp \in Ids(props) )
  => /\ PropOf(selectedProp).x = Max(0, Min(NormDen, lastGesture.centerX))
     /\ PropOf(selectedProp).y = Max(0, Min(NormDen, lastGesture.centerY))
     /\ PropOf(selectedProp).rotation = lastGesture.rotation
     /\ PropOf(selectedProp).scale =
          IF lastGesture.scale < MIN_SCALE_SQ THEN MIN_SCALE_SQ ELSE MAX_SCALE_SQ

\* a two-pointer move with a raw scale above MAX_SCALE has just turned the
\* selected prop
C9_Witness ==
  /\ event.type = "pointermove" /\ event.tracked
  /\ Len(pointers) = 2
  /\ lastGesture.type = "transform"
  /\ lastGesture.scale > MAX_SCALE_SQ
  /\ selectedProp \in Ids(props)
  /\ PropOf(selectedProp).rotation = lastGesture.rotation
  /\ PropOf(selectedProp).rotation # ZeroAngle

\* C10: after a two-pointer move on the selected prop the prop's scale is
\* exactly MIN_SCALE when the raw scale is below MIN_SCALE and exactly
\* MAX_SCALE when it is above MAX_SCALE.
C10_ScaleClampedToBounds ==
  ( /\ event.type = "pointermove" /\ event.tracked
    /\ Len(pointers) = 2
    /\ selectedProp \in Ids(props) )
  => /\ lastGesture.scale < MIN_SCALE_SQ => PropOf(selectedProp).scale = MIN_SCALE_SQ
     /\ lastGesture.scale > MAX_SCALE_SQ => PropOf(selectedProp).scale = MAX_SCALE_SQ

\* pointers 10 px apart (raw scale 0.1) have just been moved on the selected
\* prop: its scale is MIN_SCALE
C10_Witness ==
  /\ event.type = "pointermove" /\ event.tracked
  /\ Len(pointers) = 2
  /\ lastGesture.type = "transform"
  /\ lastGesture.distance = 1
  /\ lastGesture.scale * 100 = ScaleDen
  /\ selectedProp \in Ids(props)
  /\ PropOf(selectedProp).scale = MIN_SCALE_SQ

\* the prop of the list ps with id sel
PropIn(ps, sel) == ps[CHOOSE i \in 1..Len(ps) : ps[i].id = sel]

\* a normalized coordinate brought into [0, 1]
IntoUnit(v) == IF v < 0 THEN 0 ELSE IF v > NormDen THEN NormDen ELSE v

\* the pointer p is outside the canvas: a normalized coordinate below 0 or
\* above 1
OutsideSurface(p) ==
  \/ NormX(p.x) < 0 \/ NormX(p.x) > NormDen
  \/ NormY(p.y) < 0 \/ NormY(p.y) > NormDen

\* C11: when the only tracked pointer moves to a position outside the
\* canvas while a prop is selected, the prop's x and y become the pointer's
\* normalized position with each coordinate brought into [0, 1], and its
\* scale and rotation stay what they were before the move.
C11_OutsideMoveClamps ==
  [][ ( /\ event'.type = "pointermove" /\ event'.tracked
        /\ Len(pointers') = 1
        /\ selectedProp \in Ids(props)
        /\ OutsideSurface(pointers'[1]) )
      => /\ Ids(props') = Ids(props)
         /\ PropIn(props', selectedProp).x = IntoUnit(NormX(pointers'[1].x))
         /\ PropIn(props', selectedProp).y = IntoUnit(NormY(pointers'[1].y))
         /\ PropIn(props', selectedProp).scale
              = PropIn(props, selectedProp).scale
         /\ PropIn(props', selectedProp).rotation
              = PropIn(props, selectedProp).rotation ]_vars

\* a single pointer has dragged a prop, scaled and rotated before, beyond
\* the bottom-right corner
C11_Witness ==
  /\ event.type = "pointermove" /\ event.tracked
  /\ Len(pointers) = 1
  /\ OutsideSurface(pointers[1])
  /\ selectedProp \in Ids(props)
  /\ PropOf(selectedProp).x = NormDen
  /\ PropOf(selectedProp).y = NormDen
  /\ PropOf(selectedProp).scale # UNIT_SCALE_SQ
  /\ PropOf(selectedProp).rotation # ZeroAngle

\* the square of the distance between the first two pointers of ps, in
\* length units and in pixels
UnitDistSq(ps) ==
  (ps[2].x - ps[1].x) * (ps[2].x - ps[1].x)
    + (ps[2].y - ps[1].y) * (ps[2].y - ps[1].y)

PixelDistSq(ps) == PX_PER_UNIT * PX_PER_UNIT * UnitDistSq(ps)

\* C12: after a move of one of two tracked pointers the selected prop's
\* pose is a function of the two current pointer positions and the canvas
\* size alone: x and y are the midpoint divided by the canvas size and
\* brought into [0, 1], the scale is the distance over 100 px brought into
\* [MIN_SCALE, MAX_SCALE], the rotation is the direction from the first to
\* the second pointer; the pose before the move and the earlier gestures do
\* not enter.
C12_PoseFromPointersOnly ==
  ( /\ event.type = "pointermove" /\ event.tracked
    /\ Len(pointers) = 2
    /\ selectedProp \in Ids(props) )
  => LET p1 == pointers[1]
         p2 == pointers[2]
         pose == PropOf(selectedProp)
         raw == (PixelDistSq(pointers) * ScaleDen)
                  \div (REF_DISTANCE * REF_DISTANCE)
     IN  /\ pose.x = IntoUnit(((p1.x + p2.x) * NormDen) \div (2 * CanvasW))
         /\ pose.y = IntoUnit(((p1.y + p2.y) * NormDen) \div (2 * CanvasH))
         /\ pose.scale = IF raw < MIN_SCALE_SQ THEN MIN_SCALE_SQ
                         ELSE IF raw > MAX_SCALE_SQ THEN MAX_SCALE_SQ
                         ELSE raw
         /\ pose.rotation = Atan2(p2.y - p1.y, p2.x - p1.x)

\* two pointers 200 px apart have given the selected prop scale 2.0
C12_Witness ==
  /\ event.type = "pointermove" /\ event.tracked
  /\ Len(pointers) = 2
  /\ selectedProp \in Ids(props)
  /\ PixelDistSq(pointers) = 200 * 200
  /\ PropOf(selectedProp).scale = 4 * UNIT_SCALE_SQ

\* C13: the raw scale of a two-pointer gesture is the pixel distance of the
\* pointers divided by 100 px (its square is the squared distance over
\* 100 * 100), so over a step that keeps two pointers a distance that does
\* not shrink gives a raw scale that does not shrink, and a doubled distance
\* (a fourfold square) gives a doubled raw scale (a fourfold square).
C13_ScaleProportional ==
  [][ ( Len(pointers') = 2 /\ lastGesture'.type = "transform" )
      => /\ lastGesture'.scale * RefUnits * RefUnits
              = UnitDistSq(pointers') * ScaleDen
         /\ ( Len(pointers) = 2 /\ lastGesture.type = "transform" )
            => /\ PixelDistSq(pointers) <= PixelDistSq(pointers')
                    => lastGesture.scale <= lastGesture'.scale
               /\ PixelDistSq(pointers') = 4 * PixelDistSq(pointers)
                    => lastGesture'.scale = 4 * lastGesture.scale ]_vars

\* two pointers 200 px apart: raw scale 2.0
C13_Witness ==
  /\ event.type = "pointermove" /\ event.tracked
  /\ Len(pointers) = 2
  /\ lastGesture.type = "transform"
  /\ PixelDistSq(pointers) = 200 * 200
  /\ lastGesture.scale = 4 * ScaleDen

\* a step in which a pointer registered after the first two has moved
AdditionalPointerMoved ==
  /\ event'.type = "pointermove" /\ event'.tracked
  /\ Len(pointers) >= 3 /\ Len(pointers') = Len(pointers)
  /\ pointers'[1] = pointers[1] /\ pointers'[2] = pointers[2]
  /\ \E i \in 3..Len(pointers) : pointers'[i] # pointers[i]

\* C14: while three or more pointers are tracked the retained gesture is
\* the transform gesture of the current positions of the first two tracked
\* pointers, and a step in which a later pointer moves changes no pose.
C14_FirstTwoDriveGesture ==
  [][ /\ Len(pointers') >= 3
        => lastGesture' = computeTwoPointerGesture(pointers'[1], pointers'[2])
      /\ AdditionalPointerMoved => props' = props ]_vars

\* the step leads to the state handlePointerUp leaves for pointer id: the
\* tracked pointers, the retained gesture, the selection and the poses
UpOutcome(id) ==
  /\ pointers' = IF isActive THEN MapDelete(pointers, id) ELSE pointers
  /\ lastGesture' = IF ~isActive THEN lastGesture
                    ELSE IF Len(MapDelete(pointers, id)) = 0 THEN NoGesture
                    ELSE updateGesture(MapDelete(pointers, id), lastGesture)
  /\ selectedProp' = selectedProp
  /\ props' = props
  /\ isActive' = isActive

\* C15: every pointer-cancel step leads to the state a pointer-up for the
\* same pointer leads to from the same state: the same tracked pointers,
\* retained gesture, selection and poses.
C15_CancelSameAsUp ==
  [][ event'.type = "pointercancel"
      => \E id \in MultiPointerIds :
           /\ event'.tracked = (id \in Ids(pointers))
           /\ UpOutcome(id) ]_vars

\* the cancel of one of two tracked pointers has left a translate gesture
\* of the other one
C15_Witness ==
  /\ event.type = "pointercancel" /\ event.tracked
  /\ Len(pointers) = 1
  /\ lastGesture.type = "translate"
  /\ lastGesture.x = NormX(pointers[1].x)

\* the smoothed component s is previous + (new - previous) * factor, both
\* sides times SMOOTHING_DEN
SmoothedFrom(s, previous, new, factor) ==
  s * SMOOTHING_DEN = previous * SMOOTHING_DEN + (new - previous) * factor

\* C16: smoothGesture returns the new gesture as it is when there is no
\* previous gesture or the previous gesture has another type; when the
\* types are the same the result has that type and each smoothed component
\* (x and y of a translate gesture; centerX, centerY, scale and rotation of
\* a transform gesture) is previous + (new - previous) * factor, the factor
\* being 0.1 when the call gives none.
C16_SmoothingOnlyOnSameType ==
  smoothed # NoGesture =>
    LET f == IF smoothingFactor = NoFactor THEN DEFAULT_SMOOTHING
             ELSE smoothingFactor
        p == previousGesture
    IN  /\ (p = NoGesture \/ p.type # gesture.type) => smoothed = gesture
        /\ (p # NoGesture /\ p.type = gesture.type) =>
             /\ smoothed.type = gesture.type
             /\ gesture.type = "translate" =>
                  /\ SmoothedFrom(smoothed.x, p.x, gesture.x, f)
                  /\ SmoothedFrom(smoothed.y, p.y, gesture.y, f)
             /\ gesture.type = "transform" =>
                  /\ SmoothedFrom(smoothed.centerX, p.centerX, gesture.centerX, f)
                  /\ SmoothedFrom(smoothed.centerY, p.centerY, gesture.centerY, f)
                  /\ SmoothedFrom(smoothed.scale, p.scale, gesture.scale, f)
                  /\ SmoothedFrom(smoothed.rotation, p.rotation,
                                  gesture.rotation, f)

\* a transform gesture smoothed with the default factor: scale 0.5 before,
\* 2.0 now, 0.65 smoothed
C16_Witness ==
  /\ smoothed # NoGesture
  /\ smoothingFactor = NoFactor
  /\ previousGesture.type = "transform" /\ gesture.type = "transform"
  /\ previousGesture.scale = 50 /\ gesture.scale = 200
  /\ smoothed.scale = 65

\* the first drawImage call on cv painted the frame at (0, 0) at its own
\* size, untransformed
FrameFirst(cv) ==
  /\ Len(cv.draws) >= 1
  /\ cv.draws[1].layer = "frame" /\ cv.draws[1].ok
  /\ cv.draws[1].x2 = 0 /\ cv.draws[1].y2 = 0
  /\ cv.draws[1].w = cv.width /\ cv.draws[1].h = cv.height
  /\ cv.draws[1].transform = <<>>

\* the k-th drawImage call on cv painted the overlay o over the rectangle
\* (0, 0, width, height), untransformed
OverlayAt(cv, k, o) ==
  /\ Len(cv.draws) >= k
  /\ cv.draws[k].layer = "overlay" /\ cv.draws[k].src = o /\ cv.draws[k].ok
  /\ cv.draws[k].x2 = 0 /\ cv.draws[k].y2 = 0
  /\ cv.draws[k].w = cv.width /\ cv.draws[k].h = cv.height
  /\ cv.draws[k].transform = <<>>

\* the drawImage calls on cv from the k-th on are one call for each prop of
\* ps, in the order of ps
PropsFrom(cv, k, ps) ==
  /\ Len(cv.draws) = k - 1 + Len(ps)
  /\ \A i \in 1..Len(ps) :
       /\ cv.draws[k - 1 + i].layer = "prop"
       /\ cv.draws[k - 1 + i].src = ps[i].id

\* C17: a composition issues its drawImage calls in one order: the frame
\* first at (0, 0); with no overlay selected when the frame is ready the
\* props follow at once, with one selected nothing more is drawn until the
\* overlay is ready; the loaded overlay is drawn second over the rectangle
\* (0, 0, width, height) (an overlay that failed to load is not drawn);
\* then one call for each prop of the list, in list order.
C17_FixedDrawOrder ==
  [][ /\ (event'.type = "photoLoaded" /\ currentOverlay = NoOverlay)
           => FrameFirst(canvas') /\ PropsFrom(canvas', 2, props)
      /\ (event'.type = "photoLoaded" /\ currentOverlay # NoOverlay)
           => FrameFirst(canvas') /\ Len(canvas'.draws) = 1
      /\ event'.type = "overlayLoaded"
           => /\ FrameFirst(canvas')
              /\ OverlayAt(canvas', 2, capture.overlay)
              /\ PropsFrom(canvas', 3, props)
      /\ event'.type = "overlayLoadFailed"
           => FrameFirst(canvas') /\ PropsFrom(canvas', 2, props) ]_vars

\* a composition of the frame, an overlay and three props has completed
C17_Witness ==
  /\ event.type = "overlayLoaded"
  /\ Len(props) = 3
  /\ Len(canvas.draws) = 5
  /\ canvas.draws[1].layer = "frame"
  /\ canvas.draws[2].layer = "overlay"
  /\ canvas.draws[3].src = props[1].id
  /\ canvas.draws[5].src = props[3].id

\* a composition has just completed: canvas holds what it drew of props
Composited ==
  /\ event.type \in {"photoLoaded", "overlayLoaded", "overlayLoadFailed"}
  /\ capture.at = "idle"

\* some drawImage call of a prop threw
SomePropFailed ==
  \E k \in 1..Len(canvas.draws) :
    canvas.draws[k].layer = "prop" /\ ~canvas.draws[k].ok

\* the transform a prop is to be drawn under on cv: its own translate to
\* its centre, rotate and scale, on top of nothing
OwnTransform(prop, cv) ==
  << Translate(prop.x * cv.width, prop.y * cv.height),
     Rotate(prop.rotation),
     Scale(prop.scale, prop.scale) >>

\* C18: when the draw of a prop failed in a composition, the frame is
\* drawn, every prop is drawn in list order, and every prop that was
\* painted was painted under its own translate, rotate and scale alone:
\* the transform of a prop drawn before it, failed or not, is undone.
C18_NoTransformLeak ==
  (Composited /\ SomePropFailed) =>
    /\ FrameFirst(canvas)
    /\ \A k \in 1..Len(canvas.draws) :
         (canvas.draws[k].layer = "prop" /\ canvas.draws[k].ok)
           => canvas.draws[k].transform
                = OwnTransform(PropOf(canvas.draws[k].src), canvas)

\* C19: when the draw of a prop failed, the failure was caught and logged
\* and the composition completed: compositeImage resolved (the preview is
\* shown, nothing reached the catch of capturePhoto, isCapturing is false
\* again), the frame and the overlay drawn before are on the canvas, and
\* the draw of every prop of the list, the ones after the failed one
\* included, was attempted.
C19_PropFailureAbsorbed ==
  (Composited /\ SomePropFailed) =>
    /\ "compositeImage.prop" \in logged
    /\ "capturePhoto" \notin logged
    /\ ~previewHidden
    /\ ~isCapturing
    /\ FrameFirst(canvas)
    /\ event.type = "overlayLoaded" =>
         canvas.draws[2].layer = "overlay" /\ canvas.draws[2].ok
    /\ PropsFrom(canvas, IF event.type = "overlayLoaded" THEN 3 ELSE 2, props)

\* the draw of the second of three props failed, the third was painted
C19_Witness ==
  /\ Composited /\ event.type = "overlayLoaded"
  /\ Len(props) = 3
  /\ Len(canvas.draws) = 5
  /\ canvas.draws[3].ok
  /\ ~canvas.draws[4].ok
  /\ canvas.draws[5].ok /\ canvas.draws[5].src = props[3].id
  /\ ~previewHidden

\* C20 as claimed: when the frame image or the overlay image fails to load,
\* the failure reaches the catch of capturePhoto and no preview is shown.
C20_LoadFailureSurfaced ==
  [][ event'.type \in {"photoLoadFailed", "overlayLoadFailed"}
      => /\ "capturePhoto" \in logged'
         /\ previewHidden' = previewHidden ]_vars

\* C20, amended: when the frame image fails to load, compositeImage
\* rejects: the failure reaches the catch of capturePhoto, no preview is
\* shown, nothing is drawn and isCapturing is false again. When the overlay
\* image fails to load, the failure is caught in compositeImage and logged
\* there, the props are drawn on the frame without the overlay,
\* compositeImage resolves and the preview is shown.
C20_OnlyFrameFailureSurfaced ==
  [][ /\ event'.type = "photoLoadFailed"
           => /\ "capturePhoto" \in logged'
              /\ previewHidden' = previewHidden
              /\ canvas' = canvas
              /\ ~isCapturing' /\ capture' = Idle
      /\ event'.type = "overlayLoadFailed"
           => /\ "compositeImage.overlay" \in logged'
              /\ "capturePhoto" \notin logged'
              /\ ~previewHidden'
              /\ FrameFirst(canvas') /\ PropsFrom(canvas', 2, props)
              /\ ~isCapturing' /\ capture' = Idle ]_vars

\* the overlay failed to load and the preview shows the frame and two props
C20_Witness ==
  /\ event.type = "overlayLoadFailed"
  /\ currentOverlay # NoOverlay
  /\ "compositeImage.overlay" \in logged
  /\ ~previewHidden
  /\ Len(props) = 2
  /\ Len(canvas.draws) = 3
  /\ canvas.draws[1].layer = "frame"

\* C26: a successful addProp makes the list one longer: the props that
\* were in it keep their places and their poses, and the last one is a new
\* prop with x = 0.5, y = 0.5, scale = 1 and rotation = 0.
C26_AddAppendsCentered ==
  [][ event'.type = "addProp"
      => /\ Len(props') = Len(props) + 1
         /\ SubSeq(props', 1, Len(props)) = props
         /\ LET new == props'[Len(props')]
            IN  /\ new.id \notin Ids(props)
                /\ 2 * new.x = NormDen /\ 2 * new.y = NormDen
                /\ new.scale = ScaleDen
                /\ new.rotation = <<1, 0>> ]_vars

\* a prop was added behind a prop that had been moved, scaled and rotated
C26_Witness ==
  /\ event.type = "addProp"
  /\ Len(props) = 2
  /\ props[1].x # HALF /\ props[1].scale # UNIT_SCALE_SQ
  /\ props[1].rotation # ZeroAngle
  /\ props[2].x = HALF /\ props[2].y = HALF
  /\ props[2].scale = UNIT_SCALE_SQ /\ props[2].rotation = ZeroAngle

\* C30: a pointer-down, pointer-up or pointer-cancel step changes no prop's
\* pose; a pointer-up or pointer-cancel step leaves the selection as it
\* is, also when the last pointer lifts; a pointer-down step that finds
\* another pointer tracked leaves the selection as it is.
C30_OnlyMoveAppliesGesture ==
  [][ /\ event'.type \in {"pointerdown", "pointerup", "pointercancel"}
           => props' = props
      /\ event'.type \in {"pointerup", "pointercancel"}
           => selectedProp' = selectedProp
      /\ (event'.type = "pointerdown" /\ Len(pointers) >= 1)
           => selectedProp' = selectedProp ]_vars

\* the last pointer has lifted off a prop it had moved, the prop is still
\* selected
C30_Witness ==
  /\ event.type \in {"pointerup", "pointercancel"} /\ event.tracked
  /\ Len(pointers) = 0
  /\ selectedProp \in Ids(props)
  /\ PropOf(selectedProp).x # HALF

\* a drawImage call of compositeImage is on cv
CompositionDrawn(cv) ==
  \E k \in 1..Len(cv.draws) : cv.draws[k].layer \in {"frame", "overlay", "prop"}

\* C22: while compositeImage is suspended at an await it has issued no
\* draw, and once it has drawn the frame the next step is not another
\* event but the rest of its draws.
C22_DrawsAfterLastAwait ==
  [][ /\ capture'.at \in {"loadPhoto", "loadOverlay"}
           => ~CompositionDrawn(canvas')
      /\ (capture.at \in {"loadPhoto", "loadOverlay"} /\ CompositionDrawn(canvas))
           => event'.type \in {"overlayLoaded", "overlayLoadFailed"} ]_vars

\* C28: a capturePhoto call that finds isCapturing true changes nothing: no
\* countdown starts, the canvas, the pipeline in progress and every other
\* part of the state stay as they are; a call that finds it false starts
\* the one pipeline, and isCapturing is true exactly while it is in
\* progress.
C28_SingleCapture ==
  [][ /\ (event'.type = "capturePhoto" /\ isCapturing)
           => /\ UNCHANGED <<isCapturing, capture, canvas, previewHidden>>
              /\ UNCHANGED <<logged, currentOverlay, props, selectedProp>>
              /\ UNCHANGED handlerVars
      /\ (event'.type = "capturePhoto" /\ ~isCapturing)
           => isCapturing' /\ capture'.at = "countdown"
      /\ isCapturing' <=> capture'.at # "idle" ]_vars

\* a capturePhoto call arrived while compositeImage was waiting for the
\* overlay image and left the pipeline where it was
C28_Witness ==
  /\ event.type = "capturePhoto"
  /\ isCapturing
  /\ capture.at = "loadOverlay"
  /\ Len(canvas.draws) = 1 /\ canvas.draws[1].layer = "frame"

\* C25: a composition made from the frame size, the overlay, the prop list
\* with its poses and the failing prop draws of the composition before it
\* issues the drawImage calls of that one, with the same arguments under
\* the same transforms.
C25_Idempotent ==
  [][ ( /\ event'.type \in {"photoLoaded", "overlayLoaded", "overlayLoadFailed"}
        /\ capture'.at = "idle"
        /\ lastComposite'.again )
        => canvas'.draws = lastComposite.draws ]_vars

\* a second composition of the same two props over the same overlay has
\* just completed, and in both the draw of the first prop threw
C25_Witness ==
  /\ event.type = "overlayLoaded"
  /\ capture.at = "idle"
  /\ lastComposite.again
  /\ Len(props) >= 2
  /\ props[1].id \in lastComposite.from.failing
  /\ canvas.draws = lastComposite.draws

\* a prop draw of a composition under the prop's translate, rotate and
\* scale alone
OwnDraws(cv) ==
  { k \in DOMAIN cv.draws :
      /\ cv.draws[k].layer = "prop"
      /\ cv.draws[k].ok
      /\ Len(cv.draws[k].transform) = 3 }

\* C23: the box findPropAtPosition tests a prop with, in fractions of the
\* displayed canvas, is the box compositeImage paints the prop over, in
\* fractions of the output canvas: the same centre, and a normalized offset
\* from the centre is within the one exactly if it is within the other,
\* along x and along y.
C23_SameFootprint ==
  Composited =>
    \A k \in OwnDraws(canvas) :
      LET draw == canvas.draws[k]
          prop == PropOf(draw.src)
      IN  /\ draw.transform[1].a = prop.x * canvas.width
          /\ draw.transform[1].b = prop.y * canvas.height
          /\ draw.x2 = -draw.w /\ draw.y2 = -draw.h
          /\ \A d \in 0..NormDen :
                /\ Within(d, prop.width, prop.scale, CanvasW)
                     <=> Within(d, draw.w, draw.transform[3].a, canvas.width)
                /\ Within(d, prop.height, prop.scale, CanvasH)
                     <=> Within(d, draw.h, draw.transform[3].b, canvas.height)

\* C24: the canvas of a composition has the width and the height of the
\* captured frame, not those of the preview, and every prop painted on it
\* is painted as the rectangle of its width and height centred on the
\* origin, under a translate to (x * width, y * height), a rotate by its
\* rotation and a scale by its scale, and under nothing else.
C24_DrawnAtPose ==
  [][ ( /\ event'.type \in {"photoLoaded", "overlayLoaded", "overlayLoadFailed"}
        /\ capture'.at = "idle" )
        => /\ event'.type = "photoLoaded"
                => /\ canvas'.width = capture.frame[1]
                   /\ canvas'.height = capture.frame[2]
           /\ event'.type # "photoLoaded"
                => /\ canvas'.width = canvas.width
                   /\ canvas'.height = canvas.height
           /\ \A k \in DOMAIN canvas'.draws :
                LET draw == canvas'.draws[k]
                IN  (draw.layer = "prop" /\ draw.ok)
                      => \E i \in 1..Len(props) :
                           /\ props[i].id = draw.src
                           /\ draw.transform = OwnTransform(props[i], canvas')
                           /\ draw.w = props[i].width
                           /\ draw.h = props[i].height
                           /\ draw.x2 = -props[i].width
                           /\ draw.y2 = -props[i].height ]_vars

\* C21: when compositeImage reads the poses of the props no pointer is in
\* the pointer map, and from the capturePhoto call to the drawing of the
\* props no pointer event changes a pose.
C21_ComposeWhileIdle ==
  [][ /\ ( /\ event'.type \in {"photoLoaded", "overlayLoaded", "overlayLoadFailed"}
            /\ capture'.at = "idle" )
           => pointers = <<>>
      /\ (isCapturing /\ event'.type \in PointerEventTypes)
           => props' = props ]_vars

\* the number of the addProp() call that pushed the prop with this id
RequestOf(id) ==
  requestOf[CHOOSE k \in 1..Len(requestOf) : requestOf[k].id = id].req

\* C27: the props of the list are in the order of the addProp() calls that
\* made them, whatever the order in which their images loaded.
C27_RequestOrder ==
  \A i, j \in 1..Len(props) :
    i < j => RequestOf(props[i].id) < RequestOf(props[j].id)

\* C29: a capture in progress ends: isCapturing, once true, becomes false
\* again, whether the camera and the composition succeed or fail and
\* whether or not the controller is destroyed meanwhile.
C29_CaptureEnds == isCapturing ~> ~isCapturing

\* C31: loginAttempts stays within 0..MAX_LOGIN_ATTEMPTS, and a validatePin
\* call that finds it at MAX_LOGIN_ATTEMPTS returns false whatever the PIN
\* and leaves the counter as it is.
C31_RateLimited ==
  [][ /\ loginAttempts' \in 0..MAX_LOGIN_ATTEMPTS
      /\ (event'.type = "validatePin" /\ loginAttempts = MAX_LOGIN_ATTEMPTS)
           => /\ returned'.value = FALSE
              /\ loginAttempts' = loginAttempts ]_vars

\* the stored PIN has just been refused with the counter at the limit
C31_Witness ==
  /\ event.type = "validatePin"
  /\ returned.arg = getPin
  /\ returned.value = FALSE
  /\ loginAttempts = MAX_LOGIN_ATTEMPTS

\* the failed validatePin calls since the last successful one whose timer
\* has not fired
CountedFailures ==
  Cardinality({i \in DOMAIN decayTimers : decayTimers[i].counted})

\* C32: loginAttempts is at least the number of failed validatePin calls
\* made since the last successful validation whose 60 s timer has not
\* fired.
C32_FailuresCounted == loginAttempts >= CountedFailures

\* C33: isAuthenticated() is true only with a current session that is
\* active and not past its expiresAt; endSession, clearSession and the
\* expiry timer leave neither a current nor a stored session; and with
\* neither, nothing but createSession brings one back.
C33_AuthenticatedOnlyInSession ==
  [][ /\ isAuthenticated'
           => /\ currentSession' # NoSession
              /\ currentSession'.isActive
              /\ now' <= currentSession'.expiresAt
      /\ event'.type \in {"endSession", "clearSession", "sessionTimeout"}
           => /\ currentSession' = NoSession
              /\ storedSession' = NoSession
              /\ ~isAuthenticated'
      /\ ( /\ currentSession = NoSession
           /\ storedSession = NoSession
           /\ event'.type # "createSession" )
           => /\ currentSession' = NoSession
              /\ storedSession' = NoSession
              /\ ~isAuthenticated' ]_vars

\* the expiry timer of a session that was stored has just fired
C33_Witness ==
  /\ event.type = "sessionTimeout"
  /\ now >= SessionTicks
  /\ currentSession = NoSession
  /\ storedSession = NoSession
  /\ ~storageFull

\* the last n entries of list, in their order
Newest(list, n) == [i \in 1..n |-> list[Len(list) - n + i]]

\* C34: the stored photo list never has more than MAX_PHOTOS entries; a
\* successful setPhotos or addPhoto whose list is longer than MAX_PHOTOS
\* stores the last CLEANUP_THRESHOLD entries of it, in their order, which
\* for addPhoto end with the photo added.
C34_PhotoListBounded ==
  [][ /\ Len(getPhotos') <= MAX_PHOTOS
      /\ ( /\ event'.type = "setPhotos"
           /\ returned'.value
           /\ Len(returned'.arg) > MAX_PHOTOS )
           => getPhotos' = Newest(returned'.arg, CLEANUP_THRESHOLD)
      /\ ( /\ event'.type = "addPhoto"
           /\ returned'.value
           /\ Len(getPhotos) + 1 > MAX_PHOTOS )
           => /\ getPhotos'
                   = Newest(Append(getPhotos, returned'.arg), CLEANUP_THRESHOLD)
              /\ getPhotos'[CLEANUP_THRESHOLD] = returned'.arg ]_vars

\* addPhoto on a list of MAX_PHOTOS photos has just left the newest
\* CLEANUP_THRESHOLD, the added photo last
C34_Witness ==
  /\ event.type = "addPhoto"
  /\ returned.value
  /\ Len(getPhotos) = CLEANUP_THRESHOLD
  /\ getPhotos[1] = MAX_PHOTOS - CLEANUP_THRESHOLD + 2
  /\ getPhotos[CLEANUP_THRESHOLD] = returned.arg

\* C35: with localStorage available and above the 90% threshold,
\* removePhoto of a stored photo returns true and the photo is no longer in
\* the stored list.
C35_RemoveWhenFull ==
  [][ ( /\ event'.type = "removePhoto"
        /\ isAvailable
        /\ storageFull
        /\ \E i \in DOMAIN getPhotos : getPhotos[i] = returned'.arg )
        => /\ returned'.value
           /\ \A i \in DOMAIN getPhotos' : getPhotos'[i] # returned'.arg ]_vars

\* C36: after a successful setApprovedCodes(codes), getApprovedCodes()
\* returns codes, for the empty list too.
C36_CodesRoundTrip ==
  [][ (event'.type = "setApprovedCodes" /\ returned'.value)
        => getApprovedCodes' = returned'.arg ]_vars

\* C37: onScanCallback is called only by a detect() result that finds
\* isScanning true, the scanner is stopped when it is called, and it is
\* called at most once for each time startScanning() sets isScanning.
C37_OneCallback ==
  [][ /\ scanner'.callbacks <= 1
      /\ (event'.type = "detectSettles" /\ event'.tracked)
           => /\ scanner.isScanning
              /\ ~scanner'.isScanning
              /\ scanner'.stream = NoStream ]_vars

\* the callback has just been called with another detect() still in flight
C37_Witness ==
  /\ event.type = "detectSettles"
  /\ event.tracked
  /\ scanner.callbacks = 1
  /\ scanner.pendingDetects > 0

\* C38: after stopScanning() or destroy(), and until startScanning() is
\* called again, isScanning is false, no animation frame and no scan
\* timeout is pending and no stream the scanner acquired has running
\* tracks.
C38_StaysStopped ==
  scanner.stopped =>
    /\ ~scanner.isScanning
    /\ scanner.pendingFrames = {}
    /\ scanner.pendingTimeouts = {}
    /\ scanner.liveStreams = {}

\* C39: every stream the camera manager acquired is its current stream or
\* has its tracks stopped, and after stopCamera() or destroy(), until
\* startCamera() or switchCamera() is called again, no stream is running.
C39_NoLeakedStream ==
  /\ camera.liveStreams \subseteq {camera.stream}
  /\ camera.stopped => camera.liveStreams = {}

====
